---- MODULE Spec2Model ----
(***************************************************************************)
(* Model of elfmalloc's general allocator (src/elfmalloc/src/general.rs):  *)
(* the tiered size-class map, the ElfMalloc handle (alloc / realloc / free *)
(* / clone) and the large_alloc bypass.  The slag back-end and the         *)
(* magazine front-end live in slag.rs, which is not part of the sources    *)
(* at hand; they are modelled from the written specification.              *)
(***************************************************************************)
EXTENDS Integers, Naturals, Sequences, FiniteSets, TLC

VARIABLES
    handles,   \* the ElfMalloc handles created so far (new() and clones)
    mag,       \* mag[h][c]: front-end magazine of handle h for class c
    pipe,      \* pipe[c]: pointers returned to the back-end of class c
    slabs,     \* slabs carved from the creek, in carve order
    maps,      \* large_alloc mappings: base |-> header word (mapped length)
    live,      \* pointers held by callers: pointer |-> allocating handle
    wrote,     \* bytes the caller has written at each pointer it holds
    last,      \* record of the last call and of what it did
    sizes,     \* the request sizes the callers of this run use
    q,         \* size-class query (specification SpecSC only)
    build,     \* "nightly" (thread-local INIT and PTR) or "stable"
    PTR,       \* PTR[t]: the cached handle of thread t, or NULL
    INIT,      \* INIT[t]: the thread-local flag of the nightly build
    INITIALIZING,   \* the process-wide counter of the stable build
    tls,       \* tls[t]: state of LOCAL_ELF_HEAP of thread t
    LOCAL_ELF_HEAP, \* LOCAL_ELF_HEAP[t]: the handle of thread t, or NULL
    stack,     \* stack[t]: the open calls of thread t into the global module
    calls,     \* the calls made into the global module from outside it
    ctor,      \* the construction of a handle (specification SpecNew only)
    gone,      \* gone[h]: what has been dropped of handle h once its drop began
    chan,      \* the messages in flight on the reclaimer channel, oldest first
    lock,      \* the holder of the mutex of DESTRUCTOR_CHAN, or 0
    bg,        \* the background thread: its handle and what it has received
    vm         \* the address space and the MapAlloc call in progress (SpecMap only)

gvars == <<build, PTR, INIT, INITIALIZING, tls, LOCAL_ELF_HEAP, stack, calls>>

rvars == <<gone, chan, lock, bg>>

vars == <<handles, mag, pipe, slabs, maps, live, wrote, last, sizes, q,
          build, ctor, rvars, PTR, INIT, INITIALIZING, tls, LOCAL_ELF_HEAP, stack, calls,
          gone, chan, lock, bg, vm>>

----------------------------------------------------------------------------
(* Program constants *)

NULL == 0
MULTIPLE == 16
PAGE_SIZE == 4096
StartFrom == 8
NClasses == 25
UsableSize == 128 * 1024
SlabSize == 2 * 1024 * 1024
WordSize == 8

(* Bounds of the model *)

NHandles == 2
MaxLive == 2
MagCap == 1
MaxSlabs == 4
MaxMaps == 2
MaxObjs == 4
NThreads == 2
MaxNested == 1
MaxCalls == 2
DenseReq == 1100
UsizeBits == 6
PageBits == 2
MemPages == 4
MaxTries == 3

----------------------------------------------------------------------------
(* usize helpers *)

RECURSIVE Pow2AtLeast(_, _)
Pow2AtLeast(p, n) == IF p >= n THEN p ELSE Pow2AtLeast(2 * p, n)

\* usize::next_power_of_two: the smallest power of two >= n (1 for n = 0)
next_power_of_two(n) == Pow2AtLeast(1, n)

RECURSIVE trailing_zeros(_)
\* usize::trailing_zeros for a non-zero argument
trailing_zeros(n) == IF n % 2 = 1 THEN 0 ELSE 1 + trailing_zeros(n \div 2)

\* (n + (MULTIPLE - 1)) & !(MULTIPLE - 1)
round_up(n) == ((n + (MULTIPLE - 1)) \div MULTIPLE) * MULTIPLE

Min(a, b) == IF a < b THEN a ELSE b

----------------------------------------------------------------------------
(* TieredSizeClasses, Multiples, PowersOfTwo *)

n_small_classes == NClasses \div 2
n_medium_classes == NClasses - n_small_classes

Multiples_starting_size == round_up(StartFrom)
Multiples_max_size == n_small_classes * MULTIPLE + Multiples_starting_size - MULTIPLE

PowersOfTwo_starting_size == next_power_of_two(Multiples_max_size + 1)
PowersOfTwo_max_size == (PowersOfTwo_starting_size * 2 ^ n_medium_classes) \div 2

\* Multiples::get_raw without the rounding
Multiples_get_raw_floor(n) == (n - Multiples_starting_size) \div MULTIPLE

\* index into Multiples.classes
Multiples_get_raw(n) == (round_up(n) - Multiples_starting_size) \div MULTIPLE

\* index into PowersOfTwo.classes.  The subtraction is on u32: a negative
\* value here stands for the wrapped-around (out of range) index.
PowersOfTwo_get_raw(k) ==
    trailing_zeros(next_power_of_two(k)) - trailing_zeros(PowersOfTwo_starting_size)

\* a class is named by its tier and its index in the tier's array
Word == <<"word", 0>>
Small(i) == <<"small", i>>
Medium(i) == <<"medium", i>>

Classes == {Word} \cup {Small(i) : i \in 0 .. n_small_classes - 1}
                  \cup {Medium(i) : i \in 0 .. n_medium_classes - 1}

TieredSizeClasses_get_raw(n) ==
    IF n <= 8 THEN Word
    ELSE IF n <= Multiples_max_size THEN Small(Multiples_get_raw(n))
    ELSE Medium(PowersOfTwo_get_raw(n))

TieredSizeClasses_max_key == PowersOfTwo_max_size

\* the size each class was constructed with (the argument of f in init_conserve)
ObjSize(c) ==
    IF c[1] = "word" THEN WordSize
    ELSE IF c[1] = "small" THEN Multiples_starting_size + c[2] * MULTIPLE
    ELSE PowersOfTwo_starting_size * 2 ^ c[2]

TierLen(c) ==
    IF c[1] = "word" THEN 1
    ELSE IF c[1] = "small" THEN n_small_classes
    ELSE n_medium_classes

----------------------------------------------------------------------------
(* Address space.  The creek is a run of slabs; large mappings are placed  *)
(* by the VM layer somewhere outside of it.                                *)

CreekBase == 32 * SlabSize
SlabBase(i) == CreekBase + (i - 1) * SlabSize

\* Creek::contains
Creek_contains(p) == CreekBase <= p /\ p < CreekBase + MaxSlabs * SlabSize

\* Slag::find(item, page_size): the slab header is at the slab-aligned address
Slag_find(item, page_size) == item - (item % page_size)

SlabIndex(base) == (base - CreekBase) \div SlabSize + 1

LargeStride == 4 * SlabSize
LargeBases == {LargeStride * (i + 1) : i \in 0 .. MaxMaps - 1}

----------------------------------------------------------------------------
(* Metadata of a class (new_internal and compute_metadata) *)

\* the never-revoke sentinel 1 << 50: larger than any slab
Sentinel == 512 * SlabSize

\* u_size in new_internal
u_size(size) == IF size < UsableSize \div 4 THEN UsableSize ELSE Sentinel

HeaderBytes == PAGE_SIZE

\* objects of one slab
Capacity(c) == Min(u_size(ObjSize(c)), SlabSize - HeaderBytes) \div ObjSize(c)

\* address of object k of slab i
ObjAddr(i, c, k) == SlabBase(i) + HeaderBytes + k * ObjSize(c)

\* object_size in the metadata of the slag that owns item
Slag_object_size(s, item) ==
    ObjSize(s.slabs[SlabIndex(Slag_find(item, SlabSize))].cls)

----------------------------------------------------------------------------
(* Events recorded while a call runs *)

NoClass == <<"none", 0>>
Ev(k, p, d, c, n) == [k |-> k, p |-> p, d |-> d, c |-> c, n |-> n]

----------------------------------------------------------------------------
(* ObjectClass back-end: the pipe of returned pointers, then the partial   *)
(* slag, then a fresh slab.                                                *)

PartialSlabs(s, c) ==
    {i \in 1 .. Len(s.slabs) : s.slabs[i].cls = c /\ s.slabs[i].bump < Capacity(c)}

MinOf(S) == CHOOSE x \in S : \A y \in S : x <= y

\* one object of class c, or NULL when the creek has no slab left
BackendPop(s, c) ==
    IF s.pipe[c] # << >>
    THEN [s |-> [s EXCEPT !.pipe[c] = Tail(@)], res |-> Head(s.pipe[c])]
    ELSE IF PartialSlabs(s, c) # {}
    THEN LET i == MinOf(PartialSlabs(s, c))
         IN [s |-> [s EXCEPT !.slabs[i].bump = @ + 1],
             res |-> ObjAddr(i, c, s.slabs[i].bump)]
    ELSE IF Len(s.slabs) < MaxSlabs
    THEN [s |-> [s EXCEPT !.slabs = Append(@, [cls |-> c, bump |-> 1])],
          res |-> ObjAddr(Len(s.slabs) + 1, c, 0)]
    ELSE [s |-> s, res |-> NULL]

RECURSIVE acquire_batch(_, _, _)
\* up to n objects of class c
acquire_batch(s, c, n) ==
    IF n = 0 THEN [s |-> s, got |-> << >>]
    ELSE LET o == BackendPop(s, c)
         IN IF o.res = NULL THEN [s |-> s, got |-> << >>]
            ELSE LET r == acquire_batch(o.s, c, n - 1)
                 IN [s |-> r.s, got |-> <<o.res>> \o r.got]

\* the pointers of a flushed batch go back to the pipe of their class
release_batch(s, c, batch) == [s EXCEPT !.pipe[c] = @ \o batch]

----------------------------------------------------------------------------
(* MagazineCache front-end: two batches of MagCap pointers *)

EmptyMag == [front |-> << >>, reserve |-> << >>]

Front(seq, n) == SubSeq(seq, 1, Min(n, Len(seq)))
Rest(seq, n) == SubSeq(seq, Min(n, Len(seq)) + 1, Len(seq))

MagazineCache_alloc(s, h, c) ==
    LET m == s.mag[h][c]
    IN IF m.front # << >>
       THEN [s |-> [s EXCEPT !.mag[h][c].front = Tail(@)], res |-> Head(m.front)]
       ELSE IF m.reserve # << >>
       THEN [s |-> [s EXCEPT !.mag[h][c] =
                        [front |-> Tail(m.reserve), reserve |-> << >>]],
             res |-> Head(m.reserve)]
       ELSE LET r == acquire_batch(s, c, 2 * MagCap)
            IN IF r.got = << >> THEN [s |-> s, res |-> NULL]
               ELSE [s |-> [r.s EXCEPT !.mag[h][c] =
                                [front |-> Tail(Front(r.got, MagCap)),
                                 reserve |-> Rest(r.got, MagCap)]],
                     res |-> Head(r.got)]

\* MagazineCache::free losing the batch it flushes
MagazineCache_free_lose(s, h, c, item) ==
    LET m == s.mag[h][c]
    IN IF Len(m.front) < MagCap
       THEN [s EXCEPT !.mag[h][c].front = <<item>> \o @]
       ELSE IF Len(m.reserve) < MagCap
       THEN [s EXCEPT !.mag[h][c] =
                 [front |-> <<item>> \o m.reserve, reserve |-> m.front]]
       ELSE [s EXCEPT !.mag[h][c] = [front |-> <<item>>, reserve |-> m.front]]

MagazineCache_free(s, h, c, item) ==
    LET m == s.mag[h][c]
    IN IF Len(m.front) < MagCap
       THEN [s EXCEPT !.mag[h][c].front = <<item>> \o @]
       ELSE IF Len(m.reserve) < MagCap
       THEN [s EXCEPT !.mag[h][c] =
                 [front |-> <<item>> \o m.reserve, reserve |-> m.front]]
       ELSE [release_batch(s, c, m.reserve) EXCEPT !.mag[h][c] =
                 [front |-> <<item>>, reserve |-> m.front]]

----------------------------------------------------------------------------
(* mmap::map / unmap and the large_alloc module *)

\* a mapping is [len, hdr, lo]: its length, the word at its base and the
\* bytes unmapped from its start
\* map(len): the VM layer picks any page-aligned region that is not mapped
map(s, len) == {b \in LargeBases : b \notin DOMAIN s.maps /\ len <= LargeStride}

\* unmap(base, size) gives back the first size bytes of the region at base;
\* what lies behind them stays mapped
unmap(s, base, size) ==
    IF base \notin DOMAIN s.maps THEN s
    ELSE IF size >= s.maps[base].len - s.maps[base].lo
    THEN [s EXCEPT !.maps = [b \in DOMAIN s.maps \ {base} |-> s.maps[b]]]
    ELSE [s EXCEPT !.maps[base].lo = @ + size]

\* large_alloc::alloc returning the address right behind the header word
large_alloc_alloc_word(s, size) ==
    {[s |-> [s EXCEPT !.maps = (mem :> [len |-> size + PAGE_SIZE,
                                        hdr |-> size + PAGE_SIZE,
                                        lo |-> 0]) @@ @],
      res |-> mem + WordSize,
      ev |-> <<Ev("large_alloc", mem + WordSize, NULL, NoClass, size)>>]
        : mem \in map(s, size + PAGE_SIZE)}

\* large_alloc::alloc storing the requested size, not the mapped length
large_alloc_alloc_hdr(s, size) ==
    {[s |-> [s EXCEPT !.maps = (mem :> [len |-> size + PAGE_SIZE,
                                        hdr |-> size,
                                        lo |-> 0]) @@ @],
      res |-> mem + PAGE_SIZE,
      ev |-> <<Ev("large_alloc", mem + PAGE_SIZE, NULL, NoClass, size)>>]
        : mem \in map(s, size + PAGE_SIZE)}

\* map found no region and returned null: large_alloc::alloc writes the
\* length through it all the same.  The write through null is undefined: it
\* faults, or (page 0 being mapped) goes through and null + PAGE_SIZE is
\* returned.
null_mapping(s, size) ==
    {[s |-> s, res |-> NULL,
      ev |-> <<Ev("map_failed", NULL, NULL, NoClass, size),
               Ev("fault", NULL, NULL, NoClass, size)>>],
     [s |-> s, res |-> NULL + PAGE_SIZE,
      ev |-> <<Ev("map_failed", NULL, NULL, NoClass, size),
               Ev("null_write", NULL, NULL, NoClass, size)>>]}

large_alloc_alloc(s, size) ==
    IF map(s, size + PAGE_SIZE) = {} THEN null_mapping(s, size)
    ELSE
    {[s |-> [s EXCEPT !.maps = (mem :> [len |-> size + PAGE_SIZE,
                                        hdr |-> size + PAGE_SIZE,
                                        lo |-> 0]) @@ @],
      res |-> mem + PAGE_SIZE,
      ev |-> <<Ev("large_alloc", mem + PAGE_SIZE, NULL, NoClass, size)>>]
        : mem \in map(s, size + PAGE_SIZE)}

\* *(base as *mut usize); reading a page that is not mapped faults
Readable(s, base) == base \in DOMAIN s.maps /\ s.maps[base].lo = 0
HeaderWord(s, base) == IF Readable(s, base) THEN s.maps[base].hdr ELSE NULL
Access(s, base) == IF Readable(s, base) THEN "large_free" ELSE "fault"

\* large_alloc::free that reads the header and leaves the mapping in place
large_alloc_free_keep(s, item) ==
    LET base_ptr == item - PAGE_SIZE
        size == HeaderWord(s, base_ptr)
    IN {[s |-> s,
         res |-> NULL,
         ev |-> <<Ev(Access(s, base_ptr), item, NULL, NoClass, size)>>]}

large_alloc_free(s, item) ==
    LET base_ptr == item - PAGE_SIZE
        size == HeaderWord(s, base_ptr)
    IN {[s |-> unmap(s, base_ptr, size),
         res |-> NULL,
         ev |-> <<Ev(Access(s, base_ptr), item, NULL, NoClass, size)>>]}

\* (header word, base)
get_commitment(s, item) == <<HeaderWord(s, item - PAGE_SIZE), item - PAGE_SIZE>>

----------------------------------------------------------------------------
(* ElfMalloc *)

\* the max_size field, set from am.max_key() in new_internal
max_size == TieredSizeClasses_max_key

\* ElfMalloc::alloc with an inclusive comparison
ElfMalloc_alloc_le(s, h, bytes) ==
    IF bytes <= max_size
    THEN LET c == TieredSizeClasses_get_raw(bytes)
             o == MagazineCache_alloc(s, h, c)
         IN {[s |-> o.s, res |-> o.res,
              ev |-> <<Ev("class_alloc", o.res, NULL, c, bytes)>>]}
    ELSE large_alloc_alloc(s, bytes)

ElfMalloc_alloc(s, h, bytes) ==
    IF bytes < max_size
    THEN LET c == TieredSizeClasses_get_raw(bytes)
             o == MagazineCache_alloc(s, h, c)
         IN {[s |-> o.s, res |-> o.res,
              ev |-> <<Ev("class_alloc", o.res, NULL, c, bytes)>>]}
    ELSE large_alloc_alloc(s, bytes)

\* ElfMalloc::free looking the class up with half the object size as the key
ElfMalloc_free_half(s, h, item) ==
    IF Creek_contains(item)
    THEN LET c == TieredSizeClasses_get_raw(Slag_object_size(s, item) \div 2)
         IN {[s |-> MagazineCache_free(s, h, c, item), res |-> NULL,
              ev |-> <<Ev("class_free", item, NULL, c, 0)>>]}
    ELSE large_alloc_free(s, item)

\* ElfMalloc::free handing the item to the cache twice
ElfMalloc_free_twice(s, h, item) ==
    IF Creek_contains(item)
    THEN LET c == TieredSizeClasses_get_raw(Slag_object_size(s, item))
         IN {[s |-> MagazineCache_free(MagazineCache_free(s, h, c, item),
                                       h, c, item),
              res |-> NULL,
              ev |-> <<Ev("class_free", item, NULL, c, 0)>>]}
    ELSE large_alloc_free(s, item)

ElfMalloc_free(s, h, item) ==
    IF Creek_contains(item)
    THEN LET c == TieredSizeClasses_get_raw(Slag_object_size(s, item))
         IN {[s |-> MagazineCache_free(s, h, c, item), res |-> NULL,
              ev |-> <<Ev("class_free", item, NULL, c, 0)>>]}
    ELSE large_alloc_free(s, item)

\* the bytes usable at item: the object size of its slag, or what its
\* mapping holds behind the header page
Extent(s, item) ==
    IF Creek_contains(item) THEN Slag_object_size(s, item)
    ELSE IF Readable(s, item - PAGE_SIZE)
    THEN s.maps[item - PAGE_SIZE].len - PAGE_SIZE
    ELSE 0

\* ptr::copy_nonoverlapping(item, new_memory, len).  A copy that reads past
\* the end of the old block is undefined: it may run to its end or fault, and
\* a faulting call never returns.
Copy(s, item, new_memory, len) ==
    {<<Ev("copy", item, new_memory, NoClass, len)>>}
    \cup (IF len > Extent(s, item)
          THEN {<<Ev("fault", item, new_memory, NoClass, len)>>}
          ELSE {})

Faulted(ev) == \E i \in 1 .. Len(ev) : ev[i].k = "fault"

\* the move returning the old pointer instead of new_memory
Move_old(s, h, item, new_size, len, free_old) ==
    UNION {UNION {IF Faulted(cp)
                  THEN {[s |-> a.s, res |-> NULL, ev |-> a.ev \o cp]}
                  ELSE IF free_old
                  THEN {[s |-> f.s, res |-> item, ev |-> a.ev \o cp \o f.ev]
                            : f \in ElfMalloc_free(a.s, h, item)}
                  ELSE {[s |-> a.s, res |-> item, ev |-> a.ev \o cp]}
                     : cp \in Copy(a.s, item, a.res, len)}
              : a \in ElfMalloc_alloc(s, h, new_size)}

\* alloc new, copy len bytes, then (when free_old) free the old block
Move(s, h, item, new_size, len, free_old) ==
    UNION {UNION {IF Faulted(cp)
                  THEN {[s |-> a.s, res |-> NULL, ev |-> a.ev \o cp]}
                  ELSE IF free_old
                  THEN {[s |-> f.s, res |-> a.res, ev |-> a.ev \o cp \o f.ev]
                            : f \in ElfMalloc_free(a.s, h, item)}
                  ELSE {[s |-> a.s, res |-> a.res, ev |-> a.ev \o cp]}
                     : cp \in Copy(a.s, item, a.res, len)}
              : a \in ElfMalloc_alloc(s, h, new_size)}

\* ElfMalloc::realloc whose zero-size branch forgets the free
ElfMalloc_realloc_keep(s, h, item, new_size) ==
    IF item = NULL THEN ElfMalloc_alloc(s, h, new_size)
    ELSE IF new_size = 0
    THEN {[s |-> s, res |-> NULL, ev |-> << >>]}
    ELSE IF Creek_contains(item)
    THEN LET object_size == Slag_object_size(s, item)
         IN IF object_size >= new_size
            THEN {[s |-> s, res |-> item, ev |-> << >>]}
            ELSE Move(s, h, item, new_size, object_size, TRUE)
    ELSE LET size == get_commitment(s, item)[1]
         IN IF size >= new_size
            THEN {[s |-> s, res |-> item, ev |-> << >>]}
            ELSE Move(s, h, item, new_size, size, FALSE)

\* ElfMalloc::realloc that keeps the block only when the class size is exact
ElfMalloc_realloc_exact(s, h, item, new_size) ==
    IF item = NULL THEN ElfMalloc_alloc(s, h, new_size)
    ELSE IF new_size = 0
    THEN {[s |-> f.s, res |-> NULL, ev |-> f.ev] : f \in ElfMalloc_free(s, h, item)}
    ELSE IF Creek_contains(item)
    THEN LET object_size == Slag_object_size(s, item)
         IN IF object_size = new_size
            THEN {[s |-> s, res |-> item, ev |-> << >>]}
            ELSE Move(s, h, item, new_size, object_size, TRUE)
    ELSE LET size == get_commitment(s, item)[1]
         IN IF size >= new_size
            THEN {[s |-> s, res |-> item, ev |-> << >>]}
            ELSE Move(s, h, item, new_size, size, FALSE)

ElfMalloc_realloc(s, h, item, new_size) ==
    IF item = NULL THEN ElfMalloc_alloc(s, h, new_size)
    ELSE IF new_size = 0
    THEN {[s |-> f.s, res |-> NULL, ev |-> f.ev] : f \in ElfMalloc_free(s, h, item)}
    ELSE IF Creek_contains(item)
    THEN LET object_size == Slag_object_size(s, item)
         IN IF object_size >= new_size
            THEN {[s |-> s, res |-> item, ev |-> << >>]}
            ELSE Move(s, h, item, new_size, object_size, TRUE)
    ELSE LET size == get_commitment(s, item)[1]
         IN IF size >= new_size
            THEN {[s |-> s, res |-> item, ev |-> << >>]}
            ELSE Move(s, h, item, new_size, size, FALSE)

\* Clone for ElfMalloc handing the clone the contents of self's caches
ElfMalloc_clone_copy(s, h, new) ==
    [s EXCEPT !.mag = (new :> s.mag[h]) @@ @]

\* Clone for ElfMalloc: the same back-end, a fresh cache for every class
ElfMalloc_clone(s, h, new) ==
    [s EXCEPT !.mag = (new :> [c \in Classes |-> EmptyMag]) @@ @]

----------------------------------------------------------------------------
(* Dropping a handle.  gone[h] counts, once the drop of handle h has begun, *)
(* how often the cache of each class was dropped and each class array was   *)
(* destroyed, and by whom.                                                   *)

SmallClasses == {c \in Classes : c[1] = "small"}
MediumClasses == {c \in Classes : c[1] = "medium"}

NotGone == [caches |-> [c \in Classes |-> 0],
            arrays |-> [small |-> 0, medium |-> 0],
            by |-> {}]
GoneOf(g, h) == IF h \in DOMAIN g THEN g[h] ELSE NotGone

\* the drop of the front-end caches cs of handle h, run by who: the
\* pointers they hold go back to the pipes of their classes
drop_in_place(s, g, h, cs, who) ==
    [s |-> [s EXCEPT
                !.pipe = [c \in Classes |->
                             IF c \in cs /\ h \in DOMAIN s.mag
                             THEN @[c] \o s.mag[h][c].front
                                       \o s.mag[h][c].reserve
                             ELSE @[c]],
                !.mag = [k \in DOMAIN s.mag |->
                            IF k = h
                            THEN [c \in Classes |->
                                     IF c \in cs THEN EmptyMag ELSE @[k][c]]
                            ELSE @[k]]],
     g |-> (h :> [GoneOf(g, h) EXCEPT
                      !.caches = [c \in Classes |->
                                     IF c \in cs THEN @[c] + 1 ELSE @[c]],
                      !.by = @ \cup {who}]) @@ g]

\* TypedArray::destroy of a class array of handle h
destroy(g, h, array) ==
    (h :> [GoneOf(g, h) EXCEPT !.arrays[array] = @ + 1]) @@ g

\* TieredSizeClasses::foreach visiting the word class as well
TieredSizeClasses_foreach_all == Classes

\* the classes TieredSizeClasses::foreach visits
TieredSizeClasses_foreach == SmallClasses \cup MediumClasses

\* Drop for DynamicAllocator, then the drop of the fields of the handle:
\* word_objs is the one that owns its class
DynamicAllocator_drop(s, g, h) ==
    LET a == drop_in_place(s, g, h, TieredSizeClasses_foreach, "self")
        b == drop_in_place(a.s, destroy(destroy(a.g, h, "medium"), h, "small"),
                           h, {Word}, "self")
    IN [s |-> [b.s EXCEPT !.mag = [k \in DOMAIN b.s.mag \ {h} |-> b.s.mag[k]]],
        g |-> b.g]

----------------------------------------------------------------------------
(* The state machine *)

St == [mag |-> mag, pipe |-> pipe, slabs |-> slabs, maps |-> maps]

Becomes(s) ==
    /\ mag' = s.mag
    /\ pipe' = s.pipe
    /\ slabs' = s.slabs
    /\ maps' = s.maps

\* request sizes: the word class, a small class that is not a power of two, a
\* class above the page size and the sizes around max_size.  A run draws the
\* sizes of its calls from one of the sets; the run of the largest class
\* (one object to a slab) and the run that mixes size classes and large
\* mappings are runs of a single handle.
Run(szs, clones) == [of |-> szs, clones |-> clones]
SizeSets ==
    {Run({0, 40}, TRUE),
     Run({5000}, TRUE),
     Run({max_size - 1}, FALSE),
     Run({max_size, 2 * max_size}, TRUE),
     Run({40, max_size, max_size + PAGE_SIZE}, FALSE)}

NoQuery == [n |-> 0, cls |-> NoClass, done |-> FALSE]

\* no handle dropped, no channel yet, no background thread
NoReclaim ==
    /\ gone = << >>
    /\ chan = << >>
    /\ lock = 0
    /\ bg = [h |-> NULL, spawned |-> FALSE]

\* no construction is followed
NoCtor == [pc |-> "none"]

Threads == 1 .. NThreads

\* the global module before any thread has called into it
GlobalIdle ==
    /\ PTR = [t \in Threads |-> NULL]
    /\ INIT = [t \in Threads |-> FALSE]
    /\ INITIALIZING = 0
    /\ tls = [t \in Threads |-> "none"]
    /\ LOCAL_ELF_HEAP = [t \in Threads |-> NULL]
    /\ stack = [t \in Threads |-> << >>]
    /\ calls = 0

RECURSIVE Carved(_)
\* objects carved out of the slabs so far
Carved(sl) == IF sl = << >> THEN 0 ELSE Head(sl).bump + Carved(Tail(sl))

\* a step of the call found the creek exhausted or the VM layer out of memory
OutOfMemory(ev) ==
    \E i \in 1 .. Len(ev) :
        \/ ev[i].k = "class_alloc" /\ ev[i].p = NULL
        \/ ev[i].k = "map_failed"

\* no step of the call ran out of memory, and the carve counters stay bounded
Served(o) ==
    /\ ~OutOfMemory(o.ev)
    /\ Carved(o.s.slabs) <= MaxObjs

\* the leading bytes of the result that hold what the caller had written at
\* p when the call returns
Kept(o, p) ==
    LET a == IF p \in DOMAIN wrote THEN wrote[p] ELSE 0
        cps == {i \in 1 .. Len(o.ev) :
                   o.ev[i].k = "copy" /\ o.ev[i].p = p /\ o.ev[i].d = o.res}
    IN IF o.res = p THEN a
       ELSE IF cps = {} THEN 0
       ELSE Min(a, o.ev[CHOOSE i \in cps : TRUE].n)

Call(op, h, p, n, o) ==
    [op |-> op, h |-> h, p |-> p, n |-> n, res |-> o.res, ev |-> o.ev,
     held |-> live, kept |-> Kept(o, p)]

Drop(f, x) == [y \in DOMAIN f \ {x} |-> f[y]]

\* the handles made so far, and the next one
Made == handles \cup DOMAIN gone
NewHandle == Cardinality(Made) + 1

----------------------------------------------------------------------------
(* mmap-alloc: MapAlloc over the address space of the process              *)

Usize == 2 ^ UsizeBits

\* usize addition and subtraction: the wrapped result, and whether the
\* exact result leaves the range (a panic when overflow checks are on)
wrapping_add(a, b) == (a + b) % Usize
wrapping_sub(a, b) == (a - b + Usize) % Usize

PageSizes == {2 ^ PageBits, 2 ^ (PageBits + 1)}

\* the pages a range of len bytes starting at a page boundary covers
PagesOf(addr, len, ps) == {k \in 0 .. MemPages - 1 : addr <= k * ps /\ k * ps < addr + len}

next_multiple_of(size, unit) == ((size + unit - 1) \div unit) * unit

next_multiple(size, unit) ==
    IF size % unit = 0 THEN size
    ELSE wrapping_add(size, size - (size % unit))

\* the addition of next_multiple leaves usize
next_multiple_overflows(size, unit) ==
    size % unit # 0 /\ size + (size - (size % unit)) >= Usize

\* mmap(size, perms, huge_pagesize) with a null hint: the kernel refuses a
\* zero length (EINVAL, a panic), may refuse for lack of memory (ENOMEM,
\* None), or maps the pages of any free range, the one at address 0 included
mmap(mapped, size, ps) ==
    IF size = 0 THEN {[r |-> "panic", ptr |-> 0, pages |-> {}]}
    ELSE {[r |-> "None", ptr |-> 0, pages |-> {}]}
         \cup {[r |-> "Some", ptr |-> a * ps, pages |-> PagesOf(a * ps, size, ps)] :
                 a \in {b \in 0 .. MemPages - 1 :
                          /\ b * ps + size <= MemPages * ps
                          /\ PagesOf(b * ps, size, ps) \cap mapped = {}}}

\* munmap(ptr, size): the kernel refuses a start off a page boundary, a zero
\* length and a range that leaves the address space (EINVAL, and the
\* assert_eq!(ret, 0) panics); otherwise the pages of the range are unmapped
munmap(mapped, ptr, size, ps) ==
    IF ptr % ps # 0 \/ size = 0 \/ ptr + size > MemPages * ps
    THEN [r |-> "panic", mapped |-> mapped]
    ELSE [r |-> "ok", mapped |-> mapped \ PagesOf(ptr, size, ps)]

\* MapAllocBuilder::build: the object size must be a multiple of the page size
MapAllocBuilder_build(pagesize, obj_size) ==
    IF obj_size % pagesize # 0 THEN [r |-> "panic"]
    ELSE [r |-> "ok", pagesize |-> pagesize, obj_size |-> obj_size]

\* UntypedObjectAlloc::layout
layout(a) == [size |-> a.obj_size, align |-> a.pagesize]

\* the match of UntypedObjectAlloc::alloc on the result of alloc_excess
UntypedObjectAlloc_alloc(res) ==
    CASE res = "Ok" -> "Ok"
      [] res = "Exhausted" -> "Exhausted"
      [] res = "Unsupported" -> "unreachable"
      [] OTHER -> res

IdleCall == [pc |-> "idle", via |-> "none", size |-> 0, align |-> 0, sz |-> 0,
             tries |-> 0, res |-> "none", ptr |-> 0, pre |-> {}]

NoVm == [pagesize |-> PAGE_SIZE, obj_size |-> PAGE_SIZE, checks |-> FALSE,
         req |-> 1, mapped |-> {}, held |-> {}, kept |-> FALSE, call |-> IdleCall]

evars == <<handles, mag, pipe, slabs, maps, live, wrote, last, sizes, q, ctor>>

\* the call returns res (and ptr) to its caller
Returns(c, res, ptr) ==
    [c EXCEPT !.pc = "done", !.ptr = ptr,
              !.res = IF c.via = "object" THEN UntypedObjectAlloc_alloc(res) ELSE res]

\* <&MapAlloc as Alloc>::alloc_excess up to its call of alloc_helper
alloc_excess(size, align, via) ==
    /\ vm.call.pc = "idle"
    /\ LET c == [IdleCall EXCEPT !.via = via, !.size = size, !.align = align,
                                 !.pre = vm.mapped]
       IN vm' = [vm EXCEPT !.call =
                    IF align > vm.pagesize THEN Returns(c, "Unsupported", 0)
                    ELSE IF vm.checks /\ next_multiple_overflows(size, vm.pagesize)
                    THEN Returns(c, "panic", 0)
                    ELSE [c EXCEPT !.pc = "mmap", !.tries = 1,
                                   !.sz = next_multiple(size, vm.pagesize)]]
    /\ UNCHANGED <<evars, gvars, rvars>>

\* alloc_helper: mmap(size, ..).and_then(f), f on a non-null pointer; the
\* result goes back through alloc_excess
alloc_helper ==
    /\ vm.call.pc = "mmap"
    /\ vm.call.tries <= MaxTries
    /\ \E o \in mmap(vm.mapped, vm.call.sz, vm.pagesize) :
          vm' = IF o.r = "panic" THEN [vm EXCEPT !.call = Returns(@, "panic", 0)]
                ELSE IF o.r = "None"
                THEN [vm EXCEPT !.call = Returns(@, "Exhausted", 0)]
                ELSE IF o.ptr = 0
                THEN [vm EXCEPT !.mapped = @ \cup o.pages, !.call.pc = "null"]
                ELSE [vm EXCEPT !.mapped = @ \cup o.pages,
                                !.call = Returns(@, "Ok", o.ptr)]
    /\ UNCHANGED <<evars, gvars, rvars>>

\* the closure f of alloc_helper on a null pointer: unmap all but the first
\* page and call alloc_helper again
alloc_helper_null ==
    /\ vm.call.pc = "null"
    /\ LET unmap_size == wrapping_sub(vm.call.sz, vm.pagesize)
           u == IF unmap_size > 0
                THEN munmap(vm.mapped, vm.pagesize, unmap_size, vm.pagesize)
                ELSE [r |-> "ok", mapped |-> vm.mapped]
       IN vm' = IF (vm.checks /\ vm.call.sz < vm.pagesize) \/ u.r = "panic"
                THEN [vm EXCEPT !.call = Returns(@, "panic", 0)]
                ELSE [vm EXCEPT !.mapped = u.mapped, !.kept = TRUE,
                                !.call.pc = "mmap", !.call.tries = @ + 1]
    /\ UNCHANGED <<evars, gvars, rvars>>

\* the caller takes the result; a pointer it got is its own from now on
MapReturn ==
    /\ vm.call.pc = "done"
    /\ vm.call.res # "panic" /\ vm.call.res # "unreachable"
    /\ vm' = [vm EXCEPT !.call.pc = "idle",
                        !.held = IF vm.call.res = "Ok"
                                 THEN @ \cup {[ptr |-> vm.call.ptr, size |-> vm.call.size]}
                                 ELSE @]
    /\ UNCHANGED <<evars, gvars, rvars>>

\* Alloc::dealloc(ptr, layout) and UntypedObjectAlloc::dealloc(ptr)
Alloc_dealloc(h) ==
    /\ vm.call.pc = "idle"
    /\ h \in vm.held
    /\ LET u == munmap(vm.mapped, h.ptr, h.size, vm.pagesize)
       IN vm' = IF u.r = "panic"
                THEN [vm EXCEPT !.call = [IdleCall EXCEPT !.pc = "done", !.res = "panic"]]
                ELSE [vm EXCEPT !.mapped = u.mapped, !.held = @ \ {h}]
    /\ UNCHANGED <<evars, gvars, rvars>>

\* MapAllocBuilder::default() with an object size, then build(); the build
\* with and without overflow checks; req is the size the callers of this run
\* ask alloc_excess for
InitMap ==
    /\ handles = {}
    /\ mag = << >>
    /\ pipe = [c \in Classes |-> << >>]
    /\ slabs = << >>
    /\ maps = << >>
    /\ live = << >>
    /\ wrote = << >>
    /\ last = [op |-> "new", h |-> 1, p |-> NULL, n |-> 0, res |-> NULL,
               ev |-> << >>, held |-> << >>, kept |-> 0]
    /\ sizes = Run({}, FALSE)
    /\ q = NoQuery
    /\ build = "nightly"
    /\ GlobalIdle
    /\ NoReclaim
    /\ ctor = NoCtor
    /\ \E ps \in PageSizes, k \in 1 .. 2, checks \in BOOLEAN, req \in 1 .. Usize - 1 :
          LET b == MapAllocBuilder_build(ps, k * ps)
          IN /\ b.r = "ok"
             /\ vm = [NoVm EXCEPT !.pagesize = b.pagesize, !.obj_size = b.obj_size,
                                  !.checks = checks, !.req = req]

NextMap ==
    \/ \E align \in {1, vm.pagesize, 2 * vm.pagesize} :
          alloc_excess(vm.req, align, "excess")
    \/ alloc_excess(layout(vm).size, layout(vm).align, "object")
    \/ alloc_helper
    \/ alloc_helper_null
    \/ MapReturn
    \/ \E h \in vm.held : Alloc_dealloc(h)

SpecMap == InitMap /\ [][NextMap]_vars

\* DynamicAllocator::new()
Init ==
    /\ handles = {1}
    /\ mag = [h \in {1} |-> [c \in Classes |-> EmptyMag]]
    /\ pipe = [c \in Classes |-> << >>]
    /\ slabs = << >>
    /\ maps = << >>
    /\ live = << >>
    /\ wrote = << >>
    /\ last = [op |-> "new", h |-> 1, p |-> NULL, n |-> 0, res |-> NULL,
               ev |-> << >>, held |-> << >>, kept |-> 0]
    /\ sizes \in SizeSets
    /\ vm = NoVm
    /\ q = NoQuery
    /\ build = "nightly"
    /\ GlobalIdle
    /\ NoReclaim
    /\ ctor = NoCtor

Alloc(h, n) ==
    /\ Cardinality(DOMAIN live) < MaxLive
    /\ \E o \in ElfMalloc_alloc(St, h, n) :
          /\ Served(o)
          /\ Becomes(o.s)
          /\ live' = (o.res :> h) @@ live
          /\ wrote' = (o.res :> n) @@ wrote
          /\ last' = Call("alloc", h, NULL, n, o)
    /\ UNCHANGED <<handles, sizes, vm, q>>
    /\ UNCHANGED <<gvars, ctor, rvars>>

Free(h, p) ==
    /\ \E o \in ElfMalloc_free(St, h, p) :
          /\ Becomes(o.s)
          /\ last' = Call("free", h, p, 0, o)
    /\ live' = Drop(live, p)
    /\ wrote' = Drop(wrote, p)
    /\ UNCHANGED <<handles, sizes, vm, q>>
    /\ UNCHANGED <<gvars, ctor, rvars>>

Realloc(h, p, n) ==
    /\ p = NULL => Cardinality(DOMAIN live) < MaxLive
    /\ \E o \in ElfMalloc_realloc(St, h, p, n) :
          /\ Served(o)
          /\ Becomes(o.s)
          /\ live' = IF o.res = p \/ Faulted(o.ev) THEN live
                     ELSE IF o.res = NULL THEN Drop(live, p)
                     ELSE (o.res :> h) @@ Drop(live, p)
          /\ wrote' = IF Faulted(o.ev) THEN wrote
                      ELSE IF o.res = NULL THEN Drop(wrote, p)
                      ELSE (o.res :> n) @@ Drop(wrote, p)
          /\ last' = Call("realloc", h, p, n, o)
    /\ UNCHANGED <<handles, sizes, vm, q>>
    /\ UNCHANGED <<gvars, ctor, rvars>>

Clone(h) ==
    /\ sizes.clones
    /\ Cardinality(Made) < NHandles
    /\ LET new == NewHandle
       IN /\ handles' = handles \cup {new}
          /\ Becomes(ElfMalloc_clone(St, h, new))
          /\ last' = [op |-> "clone", h |-> h, p |-> NULL, n |-> 0, res |-> new,
                      ev |-> << >>, held |-> live, kept |-> 0]
    /\ UNCHANGED <<live, wrote, sizes, vm, q>>
    /\ UNCHANGED <<gvars, ctor, rvars>>

Next ==
    \/ \E h \in handles, n \in sizes.of : Alloc(h, n)
    \/ \E h \in handles, p \in DOMAIN live : Free(h, p)
    \/ \E h \in handles, p \in DOMAIN live \cup {NULL} :
          \E n \in sizes.of \cup (IF p # NULL THEN {0} ELSE {}) : Realloc(h, p, n)
    \/ \E h \in handles : Clone(h)

Spec == Init /\ [][Next]_vars

----------------------------------------------------------------------------
(* Runs in which handles are dropped as well *)

DropHandle(h) ==
    /\ Cardinality(handles) > 1
    /\ LET o == DynamicAllocator_drop(St, gone, h)
       IN /\ Becomes(o.s)
          /\ gone' = o.g
    /\ handles' = handles \ {h}
    /\ last' = [op |-> "drop", h |-> h, p |-> NULL, n |-> 0, res |-> NULL,
                ev |-> << >>, held |-> live, kept |-> 0]
    /\ UNCHANGED <<live, wrote, sizes, vm, q, ctor, chan, lock, bg>>
    /\ UNCHANGED gvars

DropSets == {Run({40}, TRUE), Run({max_size}, TRUE)}
InitDrop ==
    /\ handles = {1}
    /\ mag = [h \in {1} |-> [c \in Classes |-> EmptyMag]]
    /\ pipe = [c \in Classes |-> << >>]
    /\ slabs = << >>
    /\ maps = << >>
    /\ live = << >>
    /\ wrote = << >>
    /\ last = [op |-> "new", h |-> 1, p |-> NULL, n |-> 0, res |-> NULL,
               ev |-> << >>, held |-> << >>, kept |-> 0]
    /\ sizes \in DropSets
    /\ vm = NoVm
    /\ q = NoQuery
    /\ build = "nightly"
    /\ GlobalIdle
    /\ NoReclaim
    /\ ctor = NoCtor
NextDrop ==
    \/ \E h \in handles, n \in sizes.of : Alloc(h, n)
    \/ \E h \in handles, p \in DOMAIN live : Free(h, p)
    \/ \E h \in handles : Clone(h)
    \/ \E h \in handles : DropHandle(h)
SpecDrop == InitDrop /\ [][NextDrop]_vars

----------------------------------------------------------------------------
(* The same callers with allocations that run out of memory: the creek has  *)
(* no slab left, or the VM layer has no region left for a mapping.          *)

AllocOOM(h, n) ==
    /\ \E o \in ElfMalloc_alloc(St, h, n) :
          /\ OutOfMemory(o.ev)
          /\ Becomes(o.s)
          /\ live' = IF o.res = NULL THEN live ELSE (o.res :> h) @@ live
          /\ wrote' = IF o.res = NULL THEN wrote ELSE (o.res :> n) @@ wrote
          /\ last' = Call("alloc", h, NULL, n, o)
    /\ UNCHANGED <<handles, sizes, vm, q>>
    /\ UNCHANGED <<gvars, ctor, rvars>>

\* the runs that can exhaust the creek (every object of the largest class
\* takes a slab of its own) or the VM layer
OomSets ==
    {Run({max_size - 1}, TRUE),
     Run({max_size}, FALSE)}

InitOOM ==
    /\ handles = {1}
    /\ mag = [h \in {1} |-> [c \in Classes |-> EmptyMag]]
    /\ pipe = [c \in Classes |-> << >>]
    /\ slabs = << >>
    /\ maps = << >>
    /\ live = << >>
    /\ wrote = << >>
    /\ last = [op |-> "new", h |-> 1, p |-> NULL, n |-> 0, res |-> NULL,
               ev |-> << >>, held |-> << >>, kept |-> 0]
    /\ sizes \in OomSets
    /\ vm = NoVm
    /\ q = NoQuery
    /\ build = "nightly"
    /\ GlobalIdle
    /\ NoReclaim
    /\ ctor = NoCtor

NextOOM ==
    \/ Next
    \/ \E h \in handles, n \in sizes.of : AllocOOM(h, n)

SpecOOM == InitOOM /\ [][NextOOM]_vars

----------------------------------------------------------------------------
(* Size-class lookups on their own: every request size of QuerySizes is    *)
(* looked up once.                                                         *)

QuerySizes ==
    {n \in (0 .. DenseReq) \cup {2 ^ k + d : k \in 8 .. 20, d \in {-1, 0, 1}} :
        n <= max_size}

InitSC ==
    /\ handles = {1}
    /\ mag = [h \in {1} |-> [c \in Classes |-> EmptyMag]]
    /\ pipe = [c \in Classes |-> << >>]
    /\ slabs = << >>
    /\ maps = << >>
    /\ live = << >>
    /\ wrote = << >>
    /\ last = [op |-> "new", h |-> 1, p |-> NULL, n |-> 0, res |-> NULL,
               ev |-> << >>, held |-> << >>, kept |-> 0]
    /\ sizes = Run({}, FALSE)
    /\ vm = NoVm
    /\ q \in {[n |-> n, cls |-> NoClass, done |-> FALSE] : n \in QuerySizes}
    /\ build = "nightly"
    /\ GlobalIdle
    /\ NoReclaim
    /\ ctor = NoCtor

Lookup ==
    /\ ~q.done
    /\ q' = [q EXCEPT !.cls = TieredSizeClasses_get_raw(q.n), !.done = TRUE]
    /\ UNCHANGED <<handles, mag, pipe, slabs, maps, live, wrote, last, sizes, vm>>
    /\ UNCHANGED <<gvars, ctor, rvars>>

NextSC == Lookup

SpecSC == InitSC /\ [][NextSC]_vars

----------------------------------------------------------------------------
(* Construction: ElfMalloc::new_internal and ElfMalloc::clone, one call of  *)
(* the class constructor per step.  A class is the record of its object     *)
(* size and of the Metadata record it points at; an array of classes is     *)
(* the sequence of its elements in index order.                             *)

\* ElfMalloc::new() and configurations around it
DefaultConfig ==
    [usable_size |-> UsableSize, start_from |-> StartFrom, n_classes |-> NClasses]
Configs ==
    {[usable_size |-> u, start_from |-> s, n_classes |-> n] :
        u \in {UsableSize, UsableSize \div 2},
        s \in {StartFrom, 24},
        n \in {NClasses - 1, NClasses}}

\* the usable size chosen by the closure of new_internal
new_internal_u_size(usable_size, size) ==
    IF size < usable_size \div 4 THEN usable_size ELSE Sentinel

\* the closure of new_internal: writes the Metadata record at meta_pointer,
\* moves the pointer on and builds the class around the record
new_internal_f(c, size) ==
    [c EXCEPT !.meta = Append(@, [at |-> c.meta_pointer, size |-> size,
                                  u_size |-> new_internal_u_size(
                                                 c.cfg.usable_size, size)]),
              !.meta_pointer = @ + 1,
              !.made = [size |-> size, m_ptr |-> c.meta_pointer]]

\* the split of TieredSizeClasses::init_conserve
n_small_of(n_classes) == n_classes \div 2

\* the medium classes with one power of two more
n_medium_of_more(n_classes) == n_classes - n_small_of(n_classes) + 1

n_medium_of(n_classes) == n_classes - n_small_of(n_classes)

\* new_internal up to the first call of the closure: the Metadata mapping,
\* then Multiples::init_conserve up to its loop
new_internal ==
    /\ ctor.pc = "new"
    /\ ctor' = [ctor EXCEPT
           !.pc = "small",
           !.mapped = ctor.cfg.n_classes,
           !.meta_pointer = 0,
           !.small = [starting_size |-> round_up(ctor.cfg.start_from),
                      max_size |-> n_small_of(ctor.cfg.n_classes) * MULTIPLE
                                   + round_up(ctor.cfg.start_from) - MULTIPLE,
                      classes |-> << >>],
           !.cur_size = round_up(ctor.cfg.start_from)]
    /\ UNCHANGED <<handles, mag, pipe, slabs, maps, live, wrote, last, sizes, vm, q>>
    /\ UNCHANGED <<gvars, rvars>>

\* one turn of the loop of Multiples::init_conserve
Multiples_init_conserve ==
    /\ ctor.pc = "small"
    /\ Len(ctor.small.classes) < n_small_of(ctor.cfg.n_classes)
    /\ LET c == new_internal_f(ctor, ctor.cur_size)
       IN ctor' = [c EXCEPT !.small.classes = Append(@, c.made),
                            !.cur_size = @ + MULTIPLE]
    /\ UNCHANGED <<handles, mag, pipe, slabs, maps, live, wrote, last, sizes, vm, q>>
    /\ UNCHANGED <<gvars, rvars>>

\* PowersOfTwo::new, once the loop of Multiples::init_conserve is over
PowersOfTwo_new ==
    /\ ctor.pc = "small"
    /\ Len(ctor.small.classes) = n_small_of(ctor.cfg.n_classes)
    /\ ctor' = [ctor EXCEPT
           !.pc = "medium",
           !.medium = [starting_size |->
                           next_power_of_two(ctor.small.max_size + 1),
                       max_size |-> 0,
                       classes |-> << >>],
           !.cur_size = next_power_of_two(ctor.small.max_size + 1)]
    /\ UNCHANGED <<handles, mag, pipe, slabs, maps, live, wrote, last, sizes, vm, q>>
    /\ UNCHANGED <<gvars, rvars>>

\* one turn of the loop of PowersOfTwo::init_conserve
PowersOfTwo_init_conserve ==
    /\ ctor.pc = "medium"
    /\ Len(ctor.medium.classes) < n_medium_of(ctor.cfg.n_classes)
    /\ LET c == new_internal_f(ctor, ctor.cur_size)
       IN ctor' = [c EXCEPT !.medium.classes = Append(@, c.made),
                            !.cur_size = @ * 2]
    /\ UNCHANGED <<handles, mag, pipe, slabs, maps, live, wrote, last, sizes, vm, q>>
    /\ UNCHANGED <<gvars, rvars>>

\* the end of PowersOfTwo::init_conserve and the word class, f3(8)
TieredSizeClasses_init_conserve ==
    /\ ctor.pc = "medium"
    /\ Len(ctor.medium.classes) = n_medium_of(ctor.cfg.n_classes)
    /\ LET c == new_internal_f(ctor, 8)
       IN ctor' = [c EXCEPT !.medium.max_size = ctor.cur_size \div 2,
                            !.word = <<c.made>>,
                            !.pc = "max"]
    /\ UNCHANGED <<handles, mag, pipe, slabs, maps, live, wrote, last, sizes, vm, q>>
    /\ UNCHANGED <<gvars, rvars>>

\* the end of new_internal: max_size = am.max_key()
new_internal_end ==
    /\ ctor.pc = "max"
    /\ ctor' = [ctor EXCEPT !.max_size = ctor.medium.max_size, !.pc = "built"]
    /\ UNCHANGED <<handles, mag, pipe, slabs, maps, live, wrote, last, sizes, vm, q>>
    /\ UNCHANGED <<gvars, rvars>>

\* the keys TieredSizeClasses::init_conserve passes to its closure, in order
InitOrder(cfg) ==
    LET s0 == round_up(cfg.start_from)
        ns == n_small_of(cfg.n_classes)
        m0 == next_power_of_two(ns * MULTIPLE + s0 - MULTIPLE + 1)
    IN [i \in 1 .. ns |-> s0 + (i - 1) * MULTIPLE]
       \o [i \in 1 .. n_medium_of(cfg.n_classes) |-> m0 * 2 ^ (i - 1)]
       \o <<8>>

\* TieredSizeClasses::get_raw on the map that was built
get_raw_built(c, n) ==
    IF n <= 8 THEN c.word[1]
    ELSE IF n <= c.small.max_size
    THEN c.small.classes[(round_up(n) - c.small.starting_size) \div MULTIPLE + 1]
    ELSE c.medium.classes[trailing_zeros(next_power_of_two(n))
                          - trailing_zeros(c.medium.starting_size) + 1]

\* the closure of clone handing out a class built anew for the key
clone_f_new(c, size) == [size |-> size, m_ptr |-> c.meta_pointer]

\* the closure of clone: self.allocs.get(size).clone()
clone_f(c, size) == get_raw_built(c, size)

\* ElfMalloc::clone, one call of its closure by AM::init
ElfMalloc_clone_init ==
    /\ ctor.pc \in {"built", "clone"}
    /\ Len(ctor.clone) < Len(InitOrder(ctor.cfg))
    /\ ctor' = [ctor EXCEPT
           !.pc = "clone",
           !.clone = Append(@, clone_f(ctor, InitOrder(ctor.cfg)[Len(@) + 1]))]
    /\ UNCHANGED <<handles, mag, pipe, slabs, maps, live, wrote, last, sizes, vm, q>>
    /\ UNCHANGED <<gvars, rvars>>

\* the end of ElfMalloc::clone: the fields copied from self
ElfMalloc_clone_end ==
    /\ ctor.pc = "clone"
    /\ Len(ctor.clone) = Len(InitOrder(ctor.cfg))
    /\ ctor' = [ctor EXCEPT
           !.pc = "cloned",
           !.copy = [max_size |-> ctor.max_size,
                     start_from |-> ctor.cfg.start_from,
                     n_classes |-> ctor.cfg.n_classes]]
    /\ UNCHANGED <<handles, mag, pipe, slabs, maps, live, wrote, last, sizes, vm, q>>
    /\ UNCHANGED <<gvars, rvars>>

NoArray == [starting_size |-> 0, max_size |-> 0, classes |-> << >>]

InitNew ==
    /\ handles = {}
    /\ mag = << >>
    /\ pipe = [c \in Classes |-> << >>]
    /\ slabs = << >>
    /\ maps = << >>
    /\ live = << >>
    /\ wrote = << >>
    /\ last = [op |-> "new", h |-> 1, p |-> NULL, n |-> 0, res |-> NULL,
               ev |-> << >>, held |-> << >>, kept |-> 0]
    /\ sizes = Run({}, FALSE)
    /\ vm = NoVm
    /\ q = NoQuery
    /\ build = "nightly"
    /\ GlobalIdle
    /\ NoReclaim
    /\ ctor \in {[pc |-> "new", cfg |-> cfg, mapped |-> 0, meta_pointer |-> 0,
                  meta |-> << >>, made |-> [size |-> 0, m_ptr |-> 0],
                  small |-> NoArray, medium |-> NoArray, word |-> << >>,
                  cur_size |-> 0, max_size |-> 0, clone |-> << >>,
                  copy |-> [max_size |-> 0, start_from |-> 0, n_classes |-> 0]]
                    : cfg \in Configs}

NextNew ==
    \/ new_internal
    \/ Multiples_init_conserve
    \/ PowersOfTwo_new
    \/ PowersOfTwo_init_conserve
    \/ TieredSizeClasses_init_conserve
    \/ new_internal_end
    \/ ElfMalloc_clone_init
    \/ ElfMalloc_clone_end

SpecNew == InitNew /\ [][NextNew]_vars

\* Clones followed from both sides: the class map a clone is given, and the
\* caches of the handles of a run that clones
CloneSets == {r \in SizeSets : r.clones}
InitClone == InitNew \/ (Init /\ sizes \in CloneSets)
NextClone == Next \/ NextNew
SpecClone == InitClone /\ [][NextClone]_vars

----------------------------------------------------------------------------
(* The global module: malloc-style entry points over the lazily built      *)
(* ELF_HEAP (handle 1) and one lazily built handle per thread              *)
(* (LOCAL_ELF_HEAP).  A call is a frame on its thread's stack; the first    *)
(* access to LOCAL_ELF_HEAP on a thread registers the TLS destructor, and   *)
(* that registration may call back into the module (module documentation,  *)
(* "Recursive malloc calls").  Threads interleave between the steps.  A     *)
(* finished call stays on the stack as a "done" frame until its caller      *)
(* takes the result.                                                        *)

Nightly == build = "nightly"

\* is_initializing with the test left out
is_initializing_never(t) == FALSE

is_initializing(t) == IF Nightly THEN INIT[t] ELSE INITIALIZING > 0

Top(t) == stack[t][Len(stack[t])]

SetTop(t, f) == [stack EXCEPT ![t] = [@ EXCEPT ![Len(@)] = f]]

Push(t, f) == [stack EXCEPT ![t] = Append(@, f)]

At(t, op, pc) == stack[t] # << >> /\ Top(t).op = op /\ Top(t).pc = pc

\* thread t is between init_begin and init_end of a call of its own
InsideInit(t) ==
    \E i \in 1 .. Len(stack[t]) :
        /\ stack[t][i].op \in {"alloc", "realloc"}
        /\ stack[t][i].pc \in {"inner", "tls", "body", "end"}

\* a call enters the module; via is the handle its pointer came from
Frame(t, op, p, n, via) ==
    [op |-> op, pc |-> "begin", p |-> p, n |-> n, via |-> via,
     res |-> NULL, ev |-> << >>, route |-> "none", nested |-> 0,
     own |-> InsideInit(t), path |-> "none", msgs |-> << >>, locked |-> 0]

\* the call has run to its end with result res
Done(f, res, ev, route) ==
    [f EXCEPT !.pc = "done", !.res = res, !.ev = ev, !.route = route]

\* thread t has not yet touched the module's thread-local state
Fresh(t) == stack[t] = << >> /\ tls[t] = "none"

\* thread t can make a call: it has none open, or the registration of its
\* TLS destructor calls back.  Threads run the same code, so of the threads
\* that are still fresh the one with the smallest index calls first.
Idle(t) ==
    /\ stack[t] = << >> /\ calls < MaxCalls
    /\ Fresh(t) => \A u \in 1 .. t - 1 : ~Fresh(u)
Registering(t) ==
    stack[t] # << >> /\ Top(t).pc = "tls" /\ Top(t).nested < MaxNested
CanCall(t) == Idle(t) \/ Registering(t)

\* the stack of t with the call counted in the frame that makes it
Calling(t) ==
    IF stack[t] = << >> THEN stack
    ELSE SetTop(t, [Top(t) EXCEPT !.nested = @ + 1])

Enter(t, f) ==
    /\ stack' = [Calling(t) EXCEPT ![t] = Append(@, f)]
    /\ calls' = IF stack[t] = << >> THEN calls + 1 ELSE calls

\* calls that will hand a pointer to their caller
Pending ==
    Cardinality({ti \in Threads \X (1 .. 4) :
                    /\ ti[2] <= Len(stack[ti[1]])
                    /\ stack[ti[1]][ti[2]].op \in {"alloc", "realloc"}
                    /\ stack[ti[1]][ti[2]].pc # "panicked"})

Room == Cardinality(DOMAIN live) + Pending < MaxLive

Goto(t, pc) == stack' = SetTop(t, [Top(t) EXCEPT !.pc = pc])

\* global::alloc up to init_begin
global_alloc(t, size) ==
    /\ CanCall(t) /\ Room
    /\ LET f == Frame(t, "alloc", NULL, size, 0)
       IN IF Nightly /\ PTR[t] # NULL
          THEN \E o \in ElfMalloc_alloc(St, PTR[t], size) :
                   /\ Served(o) /\ Becomes(o.s)
                   /\ Enter(t, Done([f EXCEPT !.via = PTR[t]], o.res, o.ev, "fast"))
          ELSE IF is_initializing(t)
          THEN \E o \in large_alloc_alloc(St, size) :
                   /\ Served(o) /\ Becomes(o.s)
                   /\ Enter(t, Done(f, o.res, o.ev, "guard"))
          ELSE Enter(t, f) /\ UNCHANGED <<mag, pipe, slabs, maps>>
    /\ UNCHANGED <<handles, live, wrote, last, sizes, vm, q,
                   build, ctor, rvars, PTR, INIT, INITIALIZING, tls, LOCAL_ELF_HEAP>>

\* global::realloc up to init_begin: the assertion
global_realloc(t, item, new_size) ==
    /\ CanCall(t)
    /\ item = NULL => Room
    /\ item # NULL => Idle(t)
    /\ LET f == Frame(t, "realloc", item, new_size,
                      IF item = NULL THEN 0 ELSE live[item])
       IN IF is_initializing(t)
          THEN Enter(t, [f EXCEPT !.pc = "panicked", !.route = "panic"])
          ELSE Enter(t, f)
    /\ live' = Drop(live, item)
    /\ wrote' = Drop(wrote, item)
    /\ UNCHANGED <<handles, mag, pipe, slabs, maps, last, sizes, vm, q,
                   build, ctor, rvars, PTR, INIT, INITIALIZING, tls, LOCAL_ELF_HEAP>>

\* global::free up to the access to LOCAL_ELF_HEAP
global_free(t, item) ==
    /\ Idle(t)
    /\ LET f == Frame(t, "free", item, 0, live[item])
       IN IF Nightly /\ PTR[t] # NULL
          THEN \E o \in ElfMalloc_free(St, PTR[t], item) :
                   /\ Becomes(o.s)
                   /\ Enter(t, Done(f, NULL, o.ev, "fast"))
          ELSE Enter(t, [f EXCEPT !.pc = "inner"])
               /\ UNCHANGED <<mag, pipe, slabs, maps>>
    /\ live' = Drop(live, item)
    /\ wrote' = Drop(wrote, item)
    /\ UNCHANGED <<handles, last, sizes, vm, q,
                   build, ctor, rvars, PTR, INIT, INITIALIZING, tls, LOCAL_ELF_HEAP>>

init_begin(t) ==
    /\ stack[t] # << >> /\ Top(t).pc = "begin"
    /\ IF Nightly
       THEN INIT' = [INIT EXCEPT ![t] = TRUE] /\ UNCHANGED INITIALIZING
       ELSE INITIALIZING' = INITIALIZING + 1 /\ UNCHANGED INIT
    /\ Goto(t, "inner")
    /\ UNCHANGED <<handles, mag, pipe, slabs, maps, live, wrote, last, sizes, vm, q,
                   build, ctor, rvars, calls, PTR, tls, LOCAL_ELF_HEAP>>

init_end(t) ==
    /\ stack[t] # << >> /\ Top(t).pc = "end"
    /\ IF Nightly
       THEN INIT' = [INIT EXCEPT ![t] = FALSE] /\ UNCHANGED INITIALIZING
       ELSE INITIALIZING' = INITIALIZING - 1 /\ UNCHANGED INIT
    /\ Goto(t, "done")
    /\ UNCHANGED <<handles, mag, pipe, slabs, maps, live, wrote, last, sizes, vm, q,
                   build, ctor, rvars, calls, PTR, tls, LOCAL_ELF_HEAP>>

\* LOCAL_ELF_HEAP.with / try_with: the first access on a thread starts the
\* lazy initialisation, an access while that is under way runs it again
LocalAccess(t) ==
    /\ stack[t] # << >> /\ Top(t).pc = "inner"
    /\ tls[t] # "destroyed"
    /\ IF tls[t] = "live"
       THEN Goto(t, "body") /\ UNCHANGED tls
       ELSE Goto(t, "tls") /\ tls' = [tls EXCEPT ![t] = "init"]
    /\ UNCHANGED <<handles, mag, pipe, slabs, maps, live, wrote, last, sizes, vm, q,
                   build, ctor, rvars, calls, PTR, INIT, INITIALIZING, LOCAL_ELF_HEAP>>

\* the value of LOCAL_ELF_HEAP is built: ELF_HEAP.clone()
LocalInit(t) ==
    /\ stack[t] # << >> /\ Top(t).pc = "tls"
    /\ IF tls[t] = "live"
       THEN UNCHANGED <<handles, mag, pipe, slabs, maps, tls, LOCAL_ELF_HEAP>>
       ELSE LET new == NewHandle
            IN /\ handles' = handles \cup {new}
               /\ Becomes(ElfMalloc_clone(St, 1, new))
               /\ tls' = [tls EXCEPT ![t] = "live"]
               /\ LOCAL_ELF_HEAP' = [LOCAL_ELF_HEAP EXCEPT ![t] = new]
    /\ Goto(t, "body")
    /\ UNCHANGED <<live, wrote, last, sizes, vm, q, build, ctor, rvars, calls, PTR, INIT, INITIALIZING>>

\* alloc_inner: the closure run on the thread's handle
alloc_inner(t) ==
    /\ At(t, "alloc", "body")
    /\ LET f == Top(t)
           h == LOCAL_ELF_HEAP[t]
       IN \E o \in ElfMalloc_alloc(St, h, f.n) :
              /\ Served(o) /\ Becomes(o.s)
              /\ stack' = SetTop(t, [f EXCEPT !.pc = "end", !.res = o.res,
                                              !.ev = o.ev, !.route = "slow",
                                              !.via = h])
              /\ PTR' = IF Nightly THEN [PTR EXCEPT ![t] = h] ELSE PTR
    /\ UNCHANGED <<handles, live, wrote, last, sizes, vm, q,
                   build, ctor, rvars, calls, INIT, INITIALIZING, tls, LOCAL_ELF_HEAP>>

realloc_inner(t) ==
    /\ At(t, "realloc", "body")
    /\ LET f == Top(t)
           h == LOCAL_ELF_HEAP[t]
       IN \E o \in ElfMalloc_realloc(St, h, f.p, f.n) :
              /\ Served(o) /\ Becomes(o.s)
              /\ stack' = SetTop(t, [f EXCEPT !.pc = "end", !.res = o.res,
                                              !.ev = o.ev, !.route = "slow",
                                              !.via = IF o.res = f.p THEN @ ELSE h])
    /\ UNCHANGED <<handles, live, wrote, last, sizes, vm, q,
                   build, ctor, rvars, calls, PTR, INIT, INITIALIZING, tls, LOCAL_ELF_HEAP>>

\* the closure of global::free
free_inner(t) ==
    /\ At(t, "free", "body")
    /\ LET f == Top(t)
       IN \E o \in ElfMalloc_free(St, LOCAL_ELF_HEAP[t], f.p) :
              Becomes(o.s) /\ stack' = SetTop(t, Done(f, NULL, o.ev, "slow"))
    /\ UNCHANGED <<handles, live, wrote, last, sizes, vm, q,
                   build, ctor, rvars, calls, PTR, INIT, INITIALIZING, tls, LOCAL_ELF_HEAP>>

\* the caller takes the result of a finished call
Return(t) ==
    /\ stack[t] # << >> /\ Top(t).pc = "done"
    /\ LET f == Top(t)
       IN /\ stack' = [stack EXCEPT ![t] = SubSeq(@, 1, Len(@) - 1)]
          /\ live' = IF f.res = NULL THEN live ELSE (f.res :> f.via) @@ live
          /\ wrote' = IF f.res = NULL THEN wrote ELSE (f.res :> f.n) @@ wrote
    /\ UNCHANGED <<handles, mag, pipe, slabs, maps, last, sizes, vm, q,
                   build, ctor, rvars, calls, PTR, INIT, INITIALIZING, tls, LOCAL_ELF_HEAP>>

\* the request sizes of the threads of a run
GlobalSets == {Run({64}, FALSE)}

InitG ==
    /\ handles = {1}
    /\ mag = [h \in {1} |-> [c \in Classes |-> EmptyMag]]
    /\ pipe = [c \in Classes |-> << >>]
    /\ slabs = << >>
    /\ maps = << >>
    /\ live = << >>
    /\ wrote = << >>
    /\ last = [op |-> "new", h |-> 1, p |-> NULL, n |-> 0, res |-> NULL,
               ev |-> << >>, held |-> << >>, kept |-> 0]
    /\ sizes \in GlobalSets
    /\ vm = NoVm
    /\ q = NoQuery
    /\ build \in {"nightly", "stable"}
    /\ GlobalIdle
    /\ NoReclaim
    /\ ctor = NoCtor

NextG ==
    \/ \E t \in Threads, n \in sizes.of : global_alloc(t, n)
    \/ \E t \in Threads, p \in DOMAIN live \cup {NULL}, n \in sizes.of :
          global_realloc(t, p, n)
    \/ \E t \in Threads, p \in DOMAIN live : global_free(t, p)
    \/ \E t \in Threads : init_begin(t)
    \/ \E t \in Threads : LocalAccess(t)
    \/ \E t \in Threads : LocalInit(t)
    \/ \E t \in Threads : alloc_inner(t)
    \/ \E t \in Threads : realloc_inner(t)
    \/ \E t \in Threads : free_inner(t)
    \/ \E t \in Threads : init_end(t)
    \/ \E t \in Threads : Return(t)

SpecG == InitG /\ [][NextG]_vars

----------------------------------------------------------------------------
(* Thread exit and reclamation.  When a thread exits, the destructor of its *)
(* LOCAL_ELF_HEAP sends the class arrays and the word class of its handle   *)
(* to the background thread; calls the thread makes afterwards (from the    *)
(* destructors of other thread-local values) find LOCAL_ELF_HEAP destroyed. *)

Husk(k, h, part, p, t, path) ==
    [k |-> k, h |-> h, part |-> part, p |-> p, from |-> t, path |-> path]

\* the drop of the handle leaving PTR as it is
drop_PTR_kept(t) == PTR

\* Drop for GlobalAllocator, nightly: PTR = ptr::null_mut()
drop_PTR(t) == IF Nightly THEN [PTR EXCEPT ![t] = NULL] ELSE PTR

\* the parts Drop for GlobalAllocator sends, the word class left in place
drop_husks_arrays == <<"small", "medium">>

\* the parts Drop for GlobalAllocator sends, in order
drop_husks == <<"small", "medium", "word">>

\* the guard of DESTRUCTOR_CHAN.lock() kept beyond the statement
unlock_never(t) == lock

\* the guard of DESTRUCTOR_CHAN.lock() dropped at the end of the statement
unlock(t) == IF lock = t THEN 0 ELSE lock

PartClasses(part) ==
    IF part = "small" THEN SmallClasses
    ELSE IF part = "medium" THEN MediumClasses
    ELSE {Word}

\* the thread exits: the destructor of LOCAL_ELF_HEAP begins.  The sender is
\* LOCAL_DESTRUCTOR_CHAN, built on this first access, or, where that
\* thread-local is out of reach, a clone made under the mutex
\* how many threads exit
MaxExits == 1

thread_exit(t) ==
    /\ stack[t] = << >> /\ tls[t] = "live"
    /\ Cardinality(DOMAIN gone) < MaxExits
    /\ \A u \in Threads : stack[u] = << >>
    /\ \E path \in IF Nightly THEN {"local", "mutex"} ELSE {"mutex"} :
          stack' = Push(t, [Frame(t, "drop", NULL, 0, LOCAL_ELF_HEAP[t])
                                EXCEPT !.pc = "lock", !.path = path])
    /\ tls' = [tls EXCEPT ![t] = "destroyed"]
    /\ PTR' = drop_PTR(t)
    /\ gone' = (LOCAL_ELF_HEAP[t] :> NotGone) @@ gone
    /\ UNCHANGED <<handles, mag, pipe, slabs, maps, live, wrote, last, sizes, vm, q,
                   build, ctor, calls, INIT, INITIALIZING, LOCAL_ELF_HEAP,
                   chan, lock, bg>>

\* LOCAL_ELF_HEAP.with / try_with after the destructor has begun: try_with
\* fails and the fallback runs; with panics
LocalGone(t) ==
    /\ stack[t] # << >> /\ Top(t).pc = "inner"
    /\ tls[t] = "destroyed"
    /\ IF Nightly /\ Top(t).op = "alloc"
       THEN \E o \in large_alloc_alloc(St, Top(t).n) :
                /\ Served(o) /\ Becomes(o.s)
                /\ stack' = SetTop(t, [Top(t) EXCEPT !.pc = "end", !.res = o.res,
                                                     !.ev = o.ev, !.route = "gone"])
       ELSE /\ stack' = SetTop(t,
                  IF Nightly /\ Top(t).op = "free"
                  THEN [Top(t) EXCEPT !.pc = "fallback"]
                  ELSE [Top(t) EXCEPT !.pc = "panicked", !.route = "panic"])
            /\ UNCHANGED <<mag, pipe, slabs, maps>>
    /\ UNCHANGED <<handles, live, wrote, last, sizes, vm, q,
                   build, ctor, rvars, calls, PTR, INIT, INITIALIZING, tls,
                   LOCAL_ELF_HEAP>>

\* the fallback of global::free
free_fallback(t) ==
    /\ At(t, "free", "fallback")
    /\ IF ~Creek_contains(Top(t).p)
       THEN \E o \in large_alloc_free(St, Top(t).p) :
                /\ Becomes(o.s)
                /\ stack' = SetTop(t, Done(Top(t), NULL, o.ev, "large"))
       ELSE /\ stack' = SetTop(t, [Top(t) EXCEPT !.pc = "lock", !.path = "mutex"])
            /\ UNCHANGED <<mag, pipe, slabs, maps>>
    /\ UNCHANGED <<handles, live, wrote, last, sizes, vm, q,
                   build, ctor, rvars, calls, PTR, INIT, INITIALIZING, tls,
                   LOCAL_ELF_HEAP>>

\* DESTRUCTOR_CHAN.lock(): the first use of the lazy static makes the
\* channel and spawns the background thread
chan_lock(t) ==
    /\ stack[t] # << >> /\ Top(t).pc = "lock"
    /\ lock = 0
    /\ lock' = t
    /\ bg' = [bg EXCEPT !.spawned = TRUE]
    /\ stack' = SetTop(t, [Top(t) EXCEPT !.pc = "cloned", !.locked = @ + 1])
    /\ UNCHANGED <<handles, mag, pipe, slabs, maps, live, wrote, last, sizes, vm, q,
                   build, ctor, calls, PTR, INIT, INITIALIZING, tls,
                   LOCAL_ELF_HEAP, gone, chan>>

\* .unwrap().clone(): the sender is cloned and the statement ends
chan_clone(t) ==
    /\ stack[t] # << >> /\ Top(t).pc = "cloned"
    /\ lock' = unlock(t)
    /\ Goto(t, "send")
    /\ UNCHANGED <<handles, mag, pipe, slabs, maps, live, wrote, last, sizes, vm, q,
                   build, ctor, calls, PTR, INIT, INITIALIZING, tls,
                   LOCAL_ELF_HEAP, gone, chan, bg>>

\* chan.send of the next part of the handle; behind the last one the fields
\* of the handle are dropped, word_objs if it was not taken
drop_send(t) ==
    /\ At(t, "drop", "send")
    /\ LET f == Top(t)
           part == drop_husks[Len(f.msgs) + 1]
           m == Husk(IF part = "word" THEN "Obj" ELSE "Array",
                     f.via, part, NULL, t, f.path)
           last_one == Len(f.msgs) + 1 = Len(drop_husks)
           glue == IF last_one /\ part # "word"
                   THEN drop_in_place(St, gone, f.via, {Word}, "self")
                   ELSE [s |-> St, g |-> gone]
       IN /\ chan' = Append(chan, m)
          /\ stack' = SetTop(t, [f EXCEPT !.msgs = Append(@, m),
                                          !.pc = IF last_one THEN "done" ELSE @])
          /\ Becomes(glue.s)
          /\ gone' = glue.g
    /\ UNCHANGED <<handles, live, wrote, last, sizes, vm, q,
                   build, ctor, calls, PTR, INIT, INITIALIZING, tls,
                   LOCAL_ELF_HEAP, lock, bg>>

\* chan.send(Husk::Ptr(item))
free_send(t) ==
    /\ At(t, "free", "send")
    /\ LET f == Top(t)
           m == Husk("Ptr", NULL, "none", f.p, t, f.path)
       IN /\ chan' = Append(chan, m)
          /\ stack' = SetTop(t, [Done(f, NULL, << >>, "sent") EXCEPT
                                     !.msgs = Append(@, m)])
    /\ UNCHANGED <<handles, mag, pipe, slabs, maps, live, wrote, last, sizes, vm, q,
                   build, ctor, calls, PTR, INIT, INITIALIZING, tls,
                   LOCAL_ELF_HEAP, gone, lock, bg>>

\* the background thread starts: local_alloc = ELF_HEAP.clone()
bg_start ==
    /\ bg.spawned /\ bg.h = NULL
    /\ handles' = handles \cup {NewHandle}
    /\ Becomes(ElfMalloc_clone(St, 1, NewHandle))
    /\ bg' = [bg EXCEPT !.h = NewHandle]
    /\ UNCHANGED <<live, wrote, last, sizes, vm, q, ctor, gone, chan, lock>>
    /\ UNCHANGED gvars

\* the background thread forgetting the word class instead of dropping it
bg_process_forget(s, g, m) ==
    IF m.k = "Array"
    THEN LET o == drop_in_place(s, g, m.h, PartClasses(m.part), "bg")
         IN {[s |-> o.s, g |-> destroy(o.g, m.h, m.part)]}
    ELSE IF m.k = "Obj"
    THEN {[s |-> s, g |-> g]}
    ELSE {[s |-> o.s, g |-> g] : o \in ElfMalloc_free(s, bg.h, m.p)}

\* what the background thread does with a message: the outcomes
bg_process(s, g, m) ==
    IF m.k = "Array"
    THEN LET o == drop_in_place(s, g, m.h, PartClasses(m.part), "bg")
         IN {[s |-> o.s, g |-> destroy(o.g, m.h, m.part)]}
    ELSE IF m.k = "Obj"
    THEN {drop_in_place(s, g, m.h, {Word}, "bg")}
    ELSE {[s |-> o.s, g |-> g] : o \in ElfMalloc_free(s, bg.h, m.p)}

\* receiver.recv() and the match on the message
bg_recv ==
    /\ bg.h # NULL /\ chan # << >>
    /\ chan' = Tail(chan)
    /\ \E o \in bg_process(St, gone, Head(chan)) :
          Becomes(o.s) /\ gone' = o.g
    /\ UNCHANGED <<handles, live, wrote, last, sizes, vm, q, ctor, lock, bg>>
    /\ UNCHANGED gvars

InitR == InitG

\* no finished call is waiting to return to its caller
Returned == \A t \in Threads : ~(stack[t] # << >> /\ Top(t).pc = "done")

\* the callers take turns: thread t begins a call while no other thread is
\* inside one.  Destructors and the background thread run beside any call
Turn(t) ==
    \A u \in Threads \ {t} :
        \A i \in 1 .. Len(stack[u]) : stack[u][i].op = "drop"

\* a finished call returns before anything else runs: the return touches
\* nothing another thread reads
RSteps ==
    \/ \E t \in Threads, n \in sizes.of : Turn(t) /\ global_alloc(t, n)
    \/ \E t \in Threads, p \in DOMAIN live : Turn(t) /\ global_free(t, p)
    \/ \E t \in Threads : init_begin(t)
    \/ \E t \in Threads : LocalAccess(t)
    \/ \E t \in Threads : LocalInit(t)
    \/ \E t \in Threads : alloc_inner(t)
    \/ \E t \in Threads : free_inner(t)
    \/ \E t \in Threads : init_end(t)
    \/ \E t \in Threads : thread_exit(t)
    \/ \E t \in Threads : LocalGone(t)
    \/ \E t \in Threads : free_fallback(t)
    \/ \E t \in Threads : chan_lock(t)
    \/ \E t \in Threads : chan_clone(t)
    \/ \E t \in Threads : drop_send(t)
    \/ \E t \in Threads : free_send(t)
    \/ bg_start
    \/ bg_recv

NextR ==
    \/ \E t \in Threads : Return(t)
    \/ Returned /\ RSteps

SpecR == InitR /\ [][NextR]_vars

\* what thread t does on the way to the channel, in a destructor or in the
\* fallback of free
Runs(t) ==
    \/ chan_lock(t) \/ chan_clone(t) \/ drop_send(t)
    \/ free_fallback(t) \/ free_send(t)

\* fair scheduling: a thread that can run does, the background thread too
SpecRF ==
    /\ SpecR
    /\ \A t \in Threads : WF_vars(Returned /\ Runs(t))
    /\ \A t \in Threads : WF_vars(Return(t))
    /\ WF_vars(Returned /\ bg_start)
    /\ WF_vars(Returned /\ bg_recv)

----------------------------------------------------------------------------
(* Vocabulary of the properties *)

\* the class of the slab an in-creek pointer lies in
SlabClass(p) == slabs[SlabIndex(Slag_find(p, SlabSize))].cls

\* every object carved out of a slab so far
CarvedObjs ==
    UNION {{ObjAddr(i, slabs[i].cls, k) : k \in 0 .. slabs[i].bump - 1}
              : i \in 1 .. Len(slabs)}

Positions(seq, x) == {i \in 1 .. Len(seq) : seq[i] = x}

\* the magazines and the pipes that are not empty
BusyMags == {hc \in handles \X Classes : mag[hc[1]][hc[2]] # EmptyMag}
BusyPipes == {c \in Classes : pipe[c] # << >>}

\* the places of the free structures (magazines and pipes) that hold x
FreePlacesIn(mags, pipes, x) ==
    UNION {{<<hc[1], hc[2], "front", i>>
                : i \in Positions(mag[hc[1]][hc[2]].front, x)}
           \cup {<<hc[1], hc[2], "reserve", i>>
                : i \in Positions(mag[hc[1]][hc[2]].reserve, x)}
              : hc \in mags}
    \cup UNION {{<<0, c, "pipe", i>> : i \in Positions(pipe[c], x)} : c \in pipes}

FreePlaces(x) == FreePlacesIn(BusyMags, BusyPipes, x)

Held(x) == IF x \in DOMAIN live THEN 1 ELSE 0

\* the class with the smallest object size that is >= n
ClassFor(n) ==
    CHOOSE c \in Classes :
        /\ ObjSize(c) >= n
        /\ \A d \in Classes : ObjSize(d) >= n => ObjSize(c) <= ObjSize(d)

\* the smallest multiple of 16 and the smallest power of two that are >= n
Mult16Above(n) == n + ((MULTIPLE - (n % MULTIPLE)) % MULTIPLE)
Pow2Above(n) == CHOOSE p \in {2 ^ k : k \in 0 .. 21} :
                    p >= n /\ \A r \in {2 ^ k : k \in 0 .. 21} : r >= n => p <= r

\* the largest power of two that divides x
Pow2Part(x) == 2 ^ trailing_zeros(x)

AllocEvents == {"class_alloc", "large_alloc"}
FreeEvents == {"class_free", "large_free"}

----------------------------------------------------------------------------
(* Properties *)

\* C1: no address is handed out twice: a pointer handed out by alloc (or by
\* the allocation inside realloc) is not one a caller already holds, and a
\* pointer a caller holds sits in no magazine and in no pipe.
NoAddressTwice ==
    /\ last.op \in {"alloc", "realloc"} =>
          \A i \in 1 .. Len(last.ev) :
              last.ev[i].k \in AllocEvents => last.ev[i].p \notin DOMAIN last.held
    /\ LET mags == BusyMags
           pipes == BusyPipes
       IN \A x \in DOMAIN live : FreePlacesIn(mags, pipes, x) = {}

\* C1 witness: an alloc on one handle while a pointer of the same slab,
\* allocated through another handle, is still held
SameSlabTwoHandles ==
    /\ last.op = "alloc"
    /\ Creek_contains(last.res)
    /\ \E x \in DOMAIN last.held :
          /\ last.held[x] # last.h
          /\ Creek_contains(x)
          /\ Slag_find(x, SlabSize) = Slag_find(last.res, SlabSize)

CrossFree == last.op = "free" /\ last.held[last.p] # last.h

\* C2: a free through a handle other than the allocating one puts an in-creek
\* pointer on top of the freeing handle's magazine of the class of its slab,
\* and nowhere else, and unmaps a large pointer's mapping; every carved
\* object stays in exactly one place.
CrossFreeReturns ==
    CrossFree =>
        /\ last.p \notin DOMAIN live
        /\ IF Creek_contains(last.p)
           THEN /\ mag[last.h][SlabClass(last.p)].front # << >>
                /\ Head(mag[last.h][SlabClass(last.p)].front) = last.p
                /\ Cardinality(FreePlaces(last.p)) = 1
           ELSE /\ (last.p - PAGE_SIZE) \notin DOMAIN maps
                /\ last.ev[1].k = "large_free"
        /\ LET mags == BusyMags
               pipes == BusyPipes
           IN \A x \in CarvedObjs :
                  Cardinality(FreePlacesIn(mags, pipes, x)) + Held(x) = 1

\* C2 witness: an in-creek pointer freed through the other handle
CrossFreeInCreek == CrossFree /\ Creek_contains(last.p)

\* C3: the class selected for n is the word class for n <= 8, the small class
\* of size round_up16(n) at index (round_up16(n) - starting_size) / 16 up to
\* small_max and the medium class of size next_power_of_two(n) above; its
\* index is inside its tier and its size is the smallest class size >= n.
ClassSelection ==
    q.done =>
        /\ q.cls \in Classes
        /\ q.cls[2] >= 0 /\ q.cls[2] < TierLen(q.cls)
        /\ IF q.n <= 8 THEN q.cls = Word /\ ObjSize(q.cls) = 8
           ELSE IF q.n <= Multiples_max_size
           THEN /\ q.cls = Small((Mult16Above(q.n) - Multiples_starting_size) \div 16)
                /\ ObjSize(q.cls) = Mult16Above(q.n)
           ELSE q.cls[1] = "medium" /\ ObjSize(q.cls) = Pow2Above(q.n)
        /\ ObjSize(q.cls) >= q.n
        /\ \A d \in Classes : ObjSize(d) >= q.n => ObjSize(q.cls) <= ObjSize(d)

\* C3 witness: a size that is not a class size, looked up in the small tier
SmallTierRounded ==
    q.done /\ q.n > 8 /\ q.n <= Multiples_max_size /\ q.n % MULTIPLE # 0

ClassAlign(n) ==
    IF n < max_size THEN Min(Pow2Part(ObjSize(ClassFor(n))), PAGE_SIZE) ELSE PAGE_SIZE

AllocRoutingInclusive ==
    last.op = "alloc" =>
        IF last.n <= max_size
        THEN last.ev[1].k = "class_alloc"
        ELSE last.ev[1].k = "large_alloc"

\* C7: realloc(null, 0) returns null and allocates nothing.
ReallocNullZero ==
    (last.op = "realloc" /\ last.p = NULL /\ last.n = 0) =>
        last.res = NULL /\ last.ev = << >>

\* C8: realloc(p, 0) with p non-null does what free(p) does and returns
\* null; realloc(null, n) with n > 0 does and returns what alloc(n) does.
ReallocDegenerate ==
    [][/\ (last'.op = "realloc" /\ last'.p # NULL /\ last'.n = 0) =>
            /\ last'.res = NULL
            /\ live' = Drop(live, last'.p)
            /\ \E f \in ElfMalloc_free(St, last'.h, last'.p) :
                  St' = f.s /\ last'.ev = f.ev
       /\ (last'.op = "realloc" /\ last'.p = NULL /\ last'.n > 0) =>
            \E a \in ElfMalloc_alloc(St, last'.h, last'.n) :
                /\ St' = a.s
                /\ last'.res = a.res
                /\ last'.ev = a.ev
                /\ live' = (a.res :> last'.h) @@ live]_vars

\* C8 witness: realloc(p, 0) of a held pointer has run
ReallocZeroRan ==
    /\ last.op = "realloc" /\ last.p # NULL /\ last.n = 0
    /\ Len(last.ev) = 1 /\ last.ev[1].k \in FreeEvents

\* C9: realloc(p, n) of an in-creek p whose slag's object size is >= n > 0
\* returns p and leaves every cache, pipe, slab and mapping as it was.
ReallocFits ==
    [][(/\ last'.op = "realloc" /\ last'.p # NULL /\ last'.n > 0
        /\ Creek_contains(last'.p)
        /\ Slag_object_size(St, last'.p) >= last'.n) =>
            /\ last'.res = last'.p
            /\ last'.ev = << >>
            /\ UNCHANGED <<handles, mag, pipe, slabs, maps, live>>]_vars

\* C9 witness: a realloc to fewer bytes than the object size of p's slag
ReallocShrinkRan ==
    /\ last.op = "realloc" /\ last.p # NULL /\ last.n > 0
    /\ Creek_contains(last.p)
    /\ ObjSize(SlabClass(last.p)) > last.n

\* C10: whenever realloc(p, n) returns a pointer other than p, the old block
\* p has been freed exactly once.
ReallocFreesOld ==
    (last.op = "realloc" /\ last.p # NULL /\ last.res # last.p) =>
        Cardinality({i \in 1 .. Len(last.ev) :
                        last.ev[i].k \in FreeEvents /\ last.ev[i].p = last.p}) = 1

\* C11: realloc(p, b) of a block holding a bytes written by the caller, with
\* b >= a, returns a pointer whose first a bytes are those bytes, whether the
\* block stayed or moved and whether p was a size-class or a large pointer.
ReallocKeepsContents ==
    [][(/\ last'.op = "realloc" /\ last'.p # NULL /\ last'.n > 0
        /\ last'.n >= wrote[last'.p]) =>
            /\ ~Faulted(last'.ev)
            /\ last'.res # NULL
            /\ last'.kept >= wrote[last'.p]]_vars

\* C12: every non-null q returned by realloc(p, n) with n > 0 is a held
\* pointer with at least n usable bytes; a large pointer obtained for m bytes
\* is returned unchanged only if n <= m.
ReallocInsideAllocation ==
    (last.op = "realloc" /\ last.n > 0 /\ last.res # NULL) =>
        /\ last.res \in DOMAIN live
        /\ Extent(St, last.res) >= last.n

\* C13: large_alloc::alloc(n) maps n + page_size bytes at a fresh base,
\* stores n + page_size in the first word and returns base + page_size, and
\* get_commitment reads (n + page_size, base) back; free(p) of a large
\* pointer, through any handle, reads the length recorded at alloc and unmaps
\* exactly that mapping, leaving every other mapping as it was.
LargeRoundTrip ==
    [][/\ (last'.op = "alloc" /\ last'.n >= max_size) =>
            LET base == last'.res - PAGE_SIZE
            IN /\ base \notin DOMAIN maps
               /\ DOMAIN maps' = DOMAIN maps \cup {base}
               /\ maps'[base] = [len |-> last'.n + PAGE_SIZE,
                                 hdr |-> last'.n + PAGE_SIZE, lo |-> 0]
               /\ get_commitment(St', last'.res) = <<last'.n + PAGE_SIZE, base>>
               /\ \A b \in DOMAIN maps : maps'[b] = maps[b]
       /\ (last'.op = "free" /\ ~Creek_contains(last'.p)) =>
            LET base == last'.p - PAGE_SIZE
            IN /\ base \in DOMAIN maps
               /\ maps[base].hdr = maps[base].len /\ maps[base].lo = 0
               /\ last'.ev = <<Ev("large_free", last'.p, NULL, NoClass,
                                  maps[base].len)>>
               /\ DOMAIN maps' = DOMAIN maps \ {base}
               /\ \A b \in DOMAIN maps' : maps'[b] = maps[b]]_vars

\* C13 witness: a large pointer freed through a handle other than the one
\* that allocated it
LargeFreedByOther ==
    /\ CrossFree /\ ~Creek_contains(last.p)
    /\ last.ev[1].k = "large_free"
    /\ (last.p - PAGE_SIZE) \notin DOMAIN maps

\* C14: an allocation that finds the VM layer (or the creek) out of memory
\* returns null: it does not fault, writes no header through the failed
\* mapping and hands out nothing.
OomReturnsNull ==
    (last.op = "alloc" /\ OutOfMemory(last.ev)) =>
        /\ last.res = NULL
        /\ \A i \in 1 .. Len(last.ev) : last.ev[i].k \notin {"fault", "null_write"}

\* C15: a size-class allocation that finds the creek exhausted is served by
\* LargeAlloc and returns a non-null pointer.
CreekExhaustionFallsBack ==
    (/\ last.op = "alloc"
     /\ \E i \in 1 .. Len(last.ev) :
            last.ev[i].k = "class_alloc" /\ last.ev[i].p = NULL) =>
        /\ last.res # NULL
        /\ \E i \in 1 .. Len(last.ev) :
               last.ev[i].k = "large_alloc" /\ last.ev[i].p = last.res

----------------------------------------------------------------------------
(* The global entry points *)

\* the frames of thread t, and those between init_begin and init_end
FramesOf(t) == {stack[t][i] : i \in 1 .. Len(stack[t])}
InitFrames ==
    {ti \in Threads \X (1 .. 4) :
        /\ ti[2] <= Len(stack[ti[1]])
        /\ stack[ti[1]][ti[2]].op \in {"alloc", "realloc"}
        /\ stack[ti[1]][ti[2]].pc \in {"inner", "tls", "body", "end"}}
AllocDepth(t) ==
    Cardinality({i \in 1 .. Len(stack[t]) : stack[t][i].op = "alloc"})

\* C16: a global alloc(n) called while its thread is between init_begin and
\* init_end of a call of its own is served by large_alloc::alloc, whatever n
\* is, starts no initialisation of its own and returns at once; at most two
\* alloc calls of a thread are ever open, and the flag is set exactly while a
\* call of the thread is between init_begin and init_end, so it is clear
\* again once the outer call is done.
GuardBreaksRecursion ==
    /\ \A t \in Threads :
          /\ \A f \in FramesOf(t) :
                (f.op = "alloc" /\ f.own) =>
                    /\ f.pc = "done" /\ f.route = "guard"
                    /\ f.res # NULL
                    /\ f.ev = <<Ev("large_alloc", f.res, NULL, NoClass, f.n)>>
          /\ AllocDepth(t) <= 2
          /\ Nightly => (INIT[t] <=> InsideInit(t))
    /\ ~Nightly => INITIALIZING = Cardinality(InitFrames)
    /\ Cardinality(handles) <= 1 + NThreads

\* C16 witness: the outer alloc of a thread is done, a request below max_size
\* was made and served by the guard while it ran, and the flag is clear
OuterAllocDone ==
    \E t \in Threads :
        /\ Len(stack[t]) = 1 /\ Top(t).op = "alloc" /\ Top(t).pc = "done"
        /\ Top(t).route = "slow" /\ Top(t).nested > 0
        /\ ~InsideInit(t) /\ (Nightly => ~INIT[t])
        /\ \E p \in DOMAIN live : live[p] = 0 /\ wrote[p] < max_size

\* the step of thread t that finishes a global free of a pointer that
\* large_alloc::alloc handed out under the guard
FreesGuarded(t) ==
    /\ stack'[t] # stack[t] /\ stack'[t] # << >>
    /\ stack'[t][Len(stack'[t])].op = "free"
    /\ stack'[t][Len(stack'[t])].pc = "done"
    /\ stack'[t][Len(stack'[t])].via = 0

\* C17: a pointer that global alloc returned under the guard is not null,
\* and a global free of it, made when the thread is outside initialisation,
\* finds it outside the creek and releases it through large_alloc::free: its
\* mapping is unmapped and no magazine, pipe or slab changes.
GuardedPointerFreed ==
    [][\A t \in Threads :
          FreesGuarded(t) =>
              LET f == stack'[t][Len(stack'[t])]
              IN /\ f.p # NULL /\ ~Creek_contains(f.p)
                 /\ ~InsideInit(t)
                 /\ Len(f.ev) = 1 /\ f.ev[1].k = "large_free" /\ f.ev[1].p = f.p
                 /\ (f.p - PAGE_SIZE) \in DOMAIN maps
                 /\ (f.p - PAGE_SIZE) \notin DOMAIN maps'
                 /\ mag' = mag /\ pipe' = pipe /\ slabs' = slabs]_vars

\* C17 witness: a global free of a 64-byte request served under the guard is
\* done
GuardedFreeDone ==
    \E t \in Threads :
        /\ stack[t] # << >> /\ Top(t).op = "free" /\ Top(t).pc = "done"
        /\ Top(t).via = 0 /\ Top(t).ev[1].k = "large_free"
        /\ (Top(t).p - PAGE_SIZE) \notin DOMAIN maps

\* C18: a global alloc is diverted to large_alloc::alloc by the guard only
\* if its own thread was between init_begin and init_end when it was called.
GuardIsPerThread ==
    \A t \in Threads : \A f \in FramesOf(t) :
        (f.op = "alloc" /\ f.route = "guard") => f.own

\* C19: a global realloc fails its assertion exactly if its own thread was
\* between init_begin and init_end when it was called.
ReallocRejectedIffOwn ==
    \A t \in Threads : \A f \in FramesOf(t) :
        f.op = "realloc" => (f.pc = "panicked" <=> f.own)

\* C20: once a thread's global alloc or free has returned to its caller's
\* level, PTR of the thread (nightly build) is set and points at the
\* thread's own handle.
PtrSetByFirstCall ==
    \A t \in Threads :
        (/\ Nightly /\ Len(stack[t]) = 1
         /\ Top(t).op \in {"alloc", "free"} /\ Top(t).pc = "done") =>
            /\ PTR[t] # NULL
            /\ PTR[t] = LOCAL_ELF_HEAP[t]

----------------------------------------------------------------------------
(* Construction *)

Built == ctor.pc \in {"built", "clone", "cloned"}
SizesOf(classes) == [i \in 1 .. Len(classes) |-> classes[i].size]
AllSizes == SizesOf(ctor.word \o ctor.small.classes \o ctor.medium.classes)

\* C28: construction writes exactly n_classes Metadata records, one per
\* class, every one of them at a record index below n_classes, the number of
\* records the mapping was sized for; cloning writes none.
MetadataInsideMapping ==
    ctor.pc # "none" =>
        /\ \A i \in 1 .. Len(ctor.meta) : ctor.meta[i].at < ctor.mapped
        /\ Built => Len(ctor.meta) = ctor.cfg.n_classes

\* C29: the closure of new_internal gives a class the sentinel usable size
\* exactly if usable_size / object_size < 4, and usable_size otherwise.
SentinelBelowFour ==
    ctor.pc # "none" =>
        \A i \in 1 .. Len(ctor.meta) :
            ctor.meta[i].u_size =
                IF ctor.cfg.usable_size \div ctor.meta[i].size < 4
                THEN Sentinel ELSE ctor.cfg.usable_size

\* the classes of the default configuration: the word class of 8, the
\* multiples of 16 from 16 to S_max, the powers of two from the first one
\* >= S_max + 1, strictly increasing, max_key the size of the last medium
\* class
DefaultShape ==
    /\ SizesOf(ctor.word) = <<8>>
    /\ Len(ctor.small.classes) = NClasses \div 2
    /\ \A i \in 1 .. Len(ctor.small.classes) :
          ctor.small.classes[i].size = MULTIPLE * i
    /\ ctor.small.max_size = ctor.small.classes[Len(ctor.small.classes)].size
    /\ Len(ctor.medium.classes) = NClasses - NClasses \div 2
    /\ ctor.medium.classes[1].size = next_power_of_two(ctor.small.max_size + 1)
    /\ \A i \in 2 .. Len(ctor.medium.classes) :
          ctor.medium.classes[i].size = 2 * ctor.medium.classes[i - 1].size
    /\ \A i \in 2 .. Len(AllSizes) : AllSizes[i - 1] < AllSizes[i]
    /\ ctor.max_size = ctor.medium.classes[Len(ctor.medium.classes)].size
    /\ ctor.max_size = ctor.medium.max_size

\* C30 as stated: with start 8 and 25 classes the classes have the default
\* shape and the largest class, max_key, is 2 MiB (2^21).
ClassesSpanTo2MiB ==
    (Built /\ ctor.cfg = DefaultConfig) =>
        DefaultShape /\ ctor.max_size = 2 ^ 21

\* C30: with start 8 and 25 classes the classes have the default shape
\* (word class 8, multiples of 16 from 16 to 192, powers of two from 256) and
\* the largest class, max_key, is 1 MiB (2^20), the max_size of the handles.
ClassesSpanTo1MiB ==
    (Built /\ ctor.cfg = DefaultConfig) =>
        /\ DefaultShape
        /\ ctor.max_size = 2 ^ 20
        /\ ctor.max_size = max_size

\* C30 witness: ElfMalloc::new() has built its classes, the last one of 1 MiB
DefaultBuilt ==
    /\ ctor.pc = "built" /\ ctor.cfg = DefaultConfig
    /\ ctor.medium.classes[Len(ctor.medium.classes)].size = 1048576

\* the caches of every handle but h are what they were
OthersKept(h) == \A g \in handles \ {h} : mag'[g] = mag[g]

\* C26: a clone has the start size, the number of classes and the max_size
\* of the original and, class by class, the original's object size and
\* Metadata record; its caches are fresh, cloning changes no cache of a
\* handle that exists and nothing of the back-end, and an alloc, free or
\* realloc through one handle changes no cache of another handle.
CloneSharesBackEnd ==
    [][/\ (ctor.pc = "clone" /\ ctor'.pc = "cloned") =>
              /\ ctor'.copy = [max_size |-> ctor.max_size,
                               start_from |-> ctor.cfg.start_from,
                               n_classes |-> ctor.cfg.n_classes]
              /\ ctor'.clone = ctor.small.classes \o ctor.medium.classes
                                   \o ctor.word
              /\ ctor'.meta = ctor.meta
       /\ (last'.op = "clone" /\ handles' # handles) =>
              /\ \A c \in Classes : mag'[last'.res][c] = EmptyMag
              /\ last'.res \notin handles
              /\ \A g \in handles : mag'[g] = mag[g]
              /\ pipe' = pipe /\ slabs' = slabs /\ maps' = maps
       /\ (last' # last /\ last'.op \in {"alloc", "free", "realloc"}) =>
              OthersKept(last'.h)]_vars

\* C26 witness: a handle was cloned while the caches of the original held
\* pointers, and an alloc through the clone left them there
CloneIndependent ==
    /\ Cardinality(handles) > 1
    /\ last.op = "alloc" /\ last.h # 1 /\ last.res # NULL
    /\ \E c \in Classes : mag[1][c] # EmptyMag /\ mag[last.h][c] = EmptyMag

----------------------------------------------------------------------------
(* Dropping handles *)

\* a free of a pointer that a handle dropped since had allocated
FreeOfDropped == last.op = "free" /\ last.held[last.p] \in DOMAIN gone

\* C27: the drop of a handle drops the cache of every small class, of every
\* medium class and of the word class once and destroys each of the two
\* class arrays once; the back-end stays whole (every carved object is held
\* by a caller or lies in exactly one cache or pipe of what is left), and
\* the handles that are left still allocate and still free what the dropped
\* handle had allocated.
DropReleasesOnce ==
    /\ \A h \in DOMAIN gone :
          /\ h \notin handles /\ h \notin DOMAIN mag
          /\ \A c \in Classes : gone[h].caches[c] = 1
          /\ gone[h].arrays = [small |-> 1, medium |-> 1]
    /\ \A x \in CarvedObjs : Cardinality(FreePlaces(x)) + Held(x) = 1
    /\ FreeOfDropped =>
          /\ last.h \in handles
          /\ last.p \notin DOMAIN live
          /\ IF Creek_contains(last.p)
             THEN Head(mag[last.h][SlabClass(last.p)].front) = last.p
             ELSE /\ (last.p - PAGE_SIZE) \notin DOMAIN maps
                  /\ last.ev[1].k = "large_free"
    /\ (last.op = "alloc" /\ gone # << >>) =>
          /\ last.res # NULL /\ last.res \in DOMAIN live
          /\ Creek_contains(last.res) \/ (last.res - PAGE_SIZE) \in DOMAIN maps

\* C27 witness: a handle that is left frees an in-creek pointer that the
\* dropped handle had allocated and whose cache had held pointers
FreedAfterDrop ==
    /\ FreeOfDropped /\ Creek_contains(last.p)
    /\ \E c \in Classes : pipe[c] # << >>

----------------------------------------------------------------------------
(* Thread exit and reclamation: the properties *)

Frames == {f \in UNION {FramesOf(t) : t \in Threads} : TRUE}

\* thread t has exited and its destructor has returned
Exited(t) ==
    /\ tls[t] = "destroyed"
    /\ \A i \in 1 .. Len(stack[t]) : stack[t][i].op # "drop"

\* the messages of the channel that carry class c of handle h
InChan(h, c) ==
    {i \in 1 .. Len(chan) :
        chan[i].k \in {"Array", "Obj"} /\ chan[i].h = h
        /\ c \in PartClasses(chan[i].part)}

\* C21: a free that finds the thread's handle gone never fails and never
\* uses the handle: it ends in LargeAlloc or in a message of the channel
GoneFreeRouted ==
    \A t \in Threads : \A i \in 1 .. Len(stack[t]) :
        LET f == stack[t][i]
        IN (f.op = "free" /\ tls[t] = "destroyed"
                /\ f.pc \in {"done", "panicked"})
           => f.route \in {"large", "sent"}

\* C22: the destructor of a thread's handle sends the small array, the
\* medium array and the word class, in this order, each once and all over
\* one path, and every cache of the handle is dropped once, by the
\* background thread
DropHandsOver ==
    /\ \A t \in Threads : \A i \in 1 .. Len(stack[t]) :
          LET f == stack[t][i]
              parts == <<"small", "medium", "word">>
          IN f.op = "drop" =>
               /\ Len(f.msgs) <= 3
               /\ f.pc = "done" => Len(f.msgs) = 3
               /\ \A k \in 1 .. Len(f.msgs) :
                     /\ f.msgs[k].part = parts[k]
                     /\ f.msgs[k].h = f.via
                     /\ f.msgs[k].path = f.path
                     /\ f.msgs[k].k = IF k = 3 THEN "Obj" ELSE "Array"
               /\ \A c \in Classes :
                     gone[f.via].caches[c] + Cardinality(InChan(f.via, c))
                         = IF \E k \in 1 .. Len(f.msgs) :
                                  c \in PartClasses(f.msgs[k].part)
                           THEN 1 ELSE 0
    /\ \A h \in DOMAIN gone :
          /\ gone[h].by \subseteq {"bg"}
          /\ \A c \in Classes : gone[h].caches[c] <= 1
    /\ \A t \in Threads :
          Exited(t) =>
             \A c \in Classes :
                gone[LOCAL_ELF_HEAP[t]].caches[c]
                    + Cardinality(InChan(LOCAL_ELF_HEAP[t], c)) = 1

\* C22 witness: a destructor has returned and the background thread has
\* dropped every cache of the handle
HandedOverAndDropped ==
    \E t \in Threads :
        /\ Exited(t)
        /\ \A c \in Classes : gone[LOCAL_ELF_HEAP[t]].caches[c] = 1
        /\ gone[LOCAL_ELF_HEAP[t]].by = {"bg"}

Touched(h) == h \in DOMAIN mag /\ h \in DOMAIN mag' /\ mag'[h] # mag[h]

\* the step is one of the thread that owns h, which has not sent it away
ByOwner(h) ==
    \E t \in Threads :
        /\ stack'[t] # stack[t]
        /\ LOCAL_ELF_HEAP[t] = h /\ tls[t] = "live" /\ h \notin DOMAIN gone

\* the step is the background thread receiving a message: a pointer, freed
\* into its own handle, or caches of h that their thread has sent away
ByBackground(h) ==
    /\ chan # << >> /\ chan' = Tail(chan)
    /\ \A t \in Threads : stack'[t] = stack[t]
    /\ IF Head(chan).k = "Ptr"
       THEN h = bg.h
       ELSE h = Head(chan).h /\ h \in DOMAIN gone /\ h # bg.h

\* C25: the caches of a handle are changed by the thread that owns it, or,
\* once that thread has sent them away, by the background thread; those of
\* the process-wide handle are never changed
CachesOfOneThread ==
    [][\A h \in DOMAIN mag :
          Touched(h) => h # 1 /\ (ByOwner(h) \/ ByBackground(h))]_vars

\* C25 witness: the background thread has emptied the caches of an exited
\* thread, and pointers are back in a pipe
BackgroundEmptied ==
    \E t \in Threads :
        /\ Exited(t)
        /\ gone[LOCAL_ELF_HEAP[t]].by = {"bg"}
        /\ \A c \in Classes : mag[LOCAL_ELF_HEAP[t]][c] = EmptyMag
        /\ \E c \in Classes : pipe[c] # << >>

\* the caches of the handle of thread t have all been dropped
Reclaimed(t) ==
    /\ LOCAL_ELF_HEAP[t] \in DOMAIN gone
    /\ \A c \in Classes :
          /\ gone[LOCAL_ELF_HEAP[t]].caches[c] = 1
          /\ mag[LOCAL_ELF_HEAP[t]][c] = EmptyMag

----------------------------------------------------------------------------
(* The slags: properties *)

\* the objects of slab i that lie free in the pipe of its class
InPipe(i) ==
    {k \in 1 .. Len(pipe[slabs[i].cls]) :
        Slag_find(pipe[slabs[i].cls][k], SlabSize) = SlabBase(i)}

\* allocated_count of the slag of slab i: the objects carved from it that
\* have not come back to the class
allocated_count(i) == slabs[i].bump - Cardinality(InPipe(i))

\* C31: allocated_count of every slag is between 0 and the capacity of its
\* class
CountWithinCapacity ==
    \A i \in 1 .. Len(slabs) :
        /\ 0 <= allocated_count(i)
        /\ allocated_count(i) <= Capacity(slabs[i].cls)

\* C31 witness: a free through another handle than the one that allocated
\* the object has just run, and objects of a slag have come back to it
FreedByOtherHandle ==
    /\ last.op = "free" /\ last.p \in DOMAIN last.held
    /\ last.held[last.p] # last.h
    /\ \E i \in 1 .. Len(slabs) :
          InPipe(i) # {} /\ allocated_count(i) < slabs[i].bump

\* C34: a realloc that moves the block copies min(old_size, n) bytes,
\* old_size the usable bytes of the old block, so the copy stays inside the
\* old allocation
ReallocCopiesMin ==
    [][(last'.op = "realloc" /\ last'.p # NULL) =>
          \A i \in 1 .. Len(last'.ev) :
             last'.ev[i].k \in {"copy", "fault"} =>
                /\ last'.ev[i].n = Min(Extent(St, last'.p), last'.n)
                /\ last'.ev[i].n <= Extent(St, last'.p)]_vars

\* the pointers that lie in a cache or in a pipe
CachedPointers ==
    UNION {{mag[h][c].front[k] : k \in 1 .. Len(mag[h][c].front)}
              \cup {mag[h][c].reserve[k] : k \in 1 .. Len(mag[h][c].reserve)}
              : h \in DOMAIN mag, c \in Classes}
    \cup UNION {{pipe[c][k] : k \in 1 .. Len(pipe[c])} : c \in Classes}

\* C35: the class looked up by the object size of a class is that class, so
\* free(p) uses the class of the slab p was allocated from; free goes to
\* LargeAlloc exactly for the pointers outside the creek, and no pointer
\* outside the creek lies in a cache
FreeUsesAllocClass ==
    /\ \A c \in Classes : TieredSizeClasses_get_raw(ObjSize(c)) = c
    /\ (last.op = "alloc" /\ last.n < max_size /\ last.res # NULL) =>
          /\ Creek_contains(last.res)
          /\ SlabClass(last.res) = TieredSizeClasses_get_raw(last.n)
    /\ last.op = "free" =>
          /\ Len(last.ev) = 1
          /\ IF Creek_contains(last.p)
             THEN /\ last.ev[1].k = "class_free"
                  /\ last.ev[1].c = SlabClass(last.p)
             ELSE last.ev[1].k \in {"large_free", "fault"}
    /\ \A x \in CachedPointers : Creek_contains(x)

\* C35 witness: a pointer allocated for a size that is not the object size
\* of its class has been freed into the cache of that class
FreedIntoItsClass ==
    /\ last.op = "free" /\ Creek_contains(last.p)
    /\ last.p \in CachedPointers
    /\ ObjSize(SlabClass(last.p)) \notin sizes.of
    /\ \E n \in sizes.of : TieredSizeClasses_get_raw(n) = SlabClass(last.p)

Issued(sl, c) ==
    UNION {{ObjAddr(i, c, k) : k \in 0 .. sl[i].bump - 1} :
              i \in {j \in 1 .. Len(sl) : sl[j].cls = c}}

Items(seq) == {seq[k] : k \in 1 .. Len(seq)}

\* the pointers of class c at rest: in the batches of every handle and in
\* the pipe of the class
AtRest(m, pp, c) ==
    UNION {Items(m[h][c].front) \cup Items(m[h][c].reserve) : h \in DOMAIN m}
       \cup Items(pp[c])

RECURSIVE Batched(_, _, _)
Batched(m, hs, c) ==
    IF hs = {} THEN 0
    ELSE LET h == CHOOSE x \in hs : TRUE
         IN Len(m[h][c].front) + Len(m[h][c].reserve) + Batched(m, hs \ {h}, c)

\* C37 (state part): neither batch of a cache holds more than MagCap
\* pointers, and the pointers at rest are carved objects of their class,
\* each held once and none of them handed out
BatchesBounded ==
    LET used == {slabs[i].cls : i \in 1 .. Len(slabs)}
    IN /\ \A c \in Classes \ used :
             pipe[c] = << >> /\ \A h \in DOMAIN mag : mag[h][c] = EmptyMag
       /\ \A c \in used :
             /\ \A h \in DOMAIN mag :
                   Len(mag[h][c].front) <= MagCap /\ Len(mag[h][c].reserve) <= MagCap
             /\ AtRest(mag, pipe, c) \subseteq Issued(slabs, c)
             /\ Batched(mag, DOMAIN mag, c) + Len(pipe[c])
                   = Cardinality(AtRest(mag, pipe, c))
             /\ AtRest(mag, pipe, c) \cap DOMAIN live = {}

\* C37: alloc pops the front batch, takes the reserve when the front is
\* empty, and goes to the class only when both are empty; free pushes onto
\* the front batch, swaps when the front is full, and flushes exactly one
\* batch when both are full; no pointer is lost or duplicated
MagazineConserves ==
    [][/\ BatchesBounded'
       /\ (last'.op = "alloc" /\ Creek_contains(last'.res)) =>
             LET c == slabs'[SlabIndex(Slag_find(last'.res, SlabSize))].cls
                 m == mag[last'.h][c]
                 n == mag'[last'.h][c]
             IN /\ IF m.front # << >>
                   THEN /\ <<last'.res>> \o n.front = m.front
                        /\ n.reserve = m.reserve
                        /\ pipe' = pipe /\ slabs' = slabs
                   ELSE IF m.reserve # << >>
                   THEN /\ <<last'.res>> \o n.front = m.reserve
                        /\ n.reserve = << >>
                        /\ pipe' = pipe /\ slabs' = slabs
                   ELSE pipe' # pipe \/ slabs' # slabs
                /\ last'.res \notin AtRest(mag', pipe', c)
                /\ AtRest(mag', pipe', c) \cup {last'.res}
                      = AtRest(mag, pipe, c) \cup (Issued(slabs', c) \ Issued(slabs, c))
       /\ (last'.op = "free" /\ Creek_contains(last'.p)) =>
             LET c == SlabClass(last'.p)
                 m == mag[last'.h][c]
                 n == mag'[last'.h][c]
             IN /\ IF Len(m.front) < MagCap
                   THEN /\ n.front = <<last'.p>> \o m.front
                        /\ n.reserve = m.reserve
                        /\ pipe' = pipe
                   ELSE IF Len(m.reserve) < MagCap
                   THEN /\ n.front = <<last'.p>> \o m.reserve
                        /\ n.reserve = m.front
                        /\ pipe' = pipe
                   ELSE /\ n.front = <<last'.p>>
                        /\ n.reserve = m.front
                        /\ pipe'[c] = pipe[c] \o m.reserve
                        /\ Len(pipe'[c]) = Len(pipe[c]) + MagCap
                /\ slabs' = slabs
                /\ AtRest(mag', pipe', c) = AtRest(mag, pipe, c) \cup {last'.p}
      ]_vars

\* C37 witness: a free found both batches of its cache full and flushed one
\* batch to the class (no handle has been dropped, so the pipe holds flushed
\* batches only)
FlushedOneBatch ==
    /\ last.op = "free" /\ Creek_contains(last.p)
    /\ DOMAIN gone = {}
    /\ LET c == SlabClass(last.p)
           m == mag[last.h][c]
       IN /\ Len(m.front) = MagCap /\ Len(m.reserve) = MagCap
          /\ m.front[1] = last.p
          /\ Len(pipe[c]) >= MagCap

----------------------------------------------------------------------------
(* MapAlloc: properties *)

\* the call has entered alloc_helper
InHelper == vm.call.tries >= 1

\* C38: alloc_helper returns a non-null pointer or None and never panics; it
\* calls mmap at most twice; after a null result only the first page of the
\* mapping is left, and that page stays mapped for good
HelperRetriesOnce ==
    /\ vm.call.res = "Ok" => vm.call.ptr # 0
    /\ vm.call.tries <= 2
    /\ (InHelper /\ vm.call.pc = "done") => vm.call.res \in {"Ok", "Exhausted"}
    /\ (vm.call.pc = "mmap" /\ vm.call.tries = 2) => vm.mapped = vm.call.pre \cup {0}
    /\ vm.kept => 0 \in vm.mapped

\* C39: the size alloc_excess hands to alloc_helper and reports is the
\* smallest multiple of the page size that is >= layout.size()
RoundsUpToPage ==
    InHelper =>
       /\ vm.call.sz % vm.pagesize = 0
       /\ vm.call.sz >= vm.call.size
       /\ vm.call.sz < vm.call.size + vm.pagesize
       /\ vm.call.sz = next_multiple_of(vm.call.size, vm.pagesize)

\* C40: alloc_excess ends with invalid input and nothing mapped when the
\* alignment exceeds the page size, and otherwise with Exhausted or a
\* page-aligned non-null pointer; the object allocator's alloc ends with a
\* pointer or Exhausted
FailuresAreValues ==
    vm.call.pc = "done" =>
       /\ vm.call.align > vm.pagesize =>
             vm.call.res = "Unsupported" /\ vm.mapped = vm.call.pre
       /\ vm.call.align <= vm.pagesize =>
             /\ vm.call.res \in {"Ok", "Exhausted"}
             /\ vm.call.res = "Ok" =>
                   vm.call.ptr # 0 /\ vm.call.ptr % vm.pagesize = 0
       /\ vm.call.via = "object" => vm.call.res \in {"Ok", "Exhausted"}

====
